---- MODULE Spec2Model ----
(***************************************************************************)
(* Verification model of the AnkiAuto card importer: the line classifiers  *)
(* (parsers.py), the AnkiConnect client (anki_utils.py) and the import     *)
(* pipeline, event consumer and resolution actions of the GUI              *)
(* (main_gui.py).                                                          *)
(*                                                                         *)
(* A line of text is a sequence of characters; a character is one of the   *)
(* one-character classes below.                                            *)
(*   "("  ")"  ","  "a"   ASCII: parentheses, comma, any other letter      *)
(*   " "                  ASCII space                                      *)
(*   "FW"                 U+3000 full-width space (whitespace in Python)   *)
(*   "ZW"                 U+200B zero-width space (NOT whitespace)         *)
(*   "J"                  a kana / kanji character                         *)
(*   "JC"                 U+3001 ideographic comma (Japanese class)        *)
(***************************************************************************)
EXTENDS Integers, Sequences, FiniteSets, TLC

\* ------------------------------------------------------------------------
\* Characters and string helpers (Python str / re semantics)
\* ------------------------------------------------------------------------

\* jp_char_class of parse_passive_line
IsJp(c) == c \in {"J", "JC"}

\* str.strip() and the regex class \s
IsSpace(c) == c \in {" ", "FW"}

\* (mutant: only the ASCII comma is looked for)
IsComma_AsciiOnly(c) == c = ","

\* the comma test of the back scan: ',' or U+3001
IsComma(c) == c \in {",", "JC"}

\* s[i:j] in 1-based inclusive positions; empty when i > j
Slice(s, i, j) == IF i > j THEN <<>> ELSE SubSeq(s, i, j)

RECURSIVE LStrip(_)
LStrip(s) == IF s # <<>> /\ IsSpace(Head(s)) THEN LStrip(Tail(s)) ELSE s

RECURSIVE RStrip(_)
RStrip(s) ==
    IF s # <<>> /\ IsSpace(s[Len(s)]) THEN RStrip(SubSeq(s, 1, Len(s) - 1)) ELSE s

\* (mutant: only the leading whitespace is removed)
Strip_LeftOnly(s) == LStrip(s)

\* str.strip()
Strip(s) == LStrip(RStrip(s))

\* str.replace(U+200B, '')
RECURSIVE RemoveZW(_)
RemoveZW(s) ==
    IF s = <<>> THEN <<>>
    ELSE IF Head(s) = "ZW" THEN RemoveZW(Tail(s))
    ELSE <<Head(s)>> \o RemoveZW(Tail(s))

\* the (front, back, tag) triple of a failed classification
NoCard == [front |-> <<>>, back |-> <<>>, tag |-> "None"]

\* config.PASSIVE_KANJI_TAG
PASSIVE_KANJI_TAG == "Kanji"

\* (mutant: group 2 may be empty, as with ^(\(.+?\))\s*(.*)$)
KanjiCloses_EmptyBack(line) ==
    {i \in 3..Len(line) : line[i] = ")"}

\* (mutant: group 1 is greedy and runs to the last closing parenthesis)
KanjiCloses_Last(line) ==
    LET S == {i \in 3..(Len(line) - 1) : line[i] = ")"}
    IN  IF S = {} THEN {} ELSE {CHOOSE x \in S : \A y \in S : x >= y}

\* positions i of a closing parenthesis that can end group 1 of
\* ^(\(.+?\))\s*(.+)$ : at least one character inside, at least one after
KanjiCloses(line) ==
    {i \in 3..(Len(line) - 1) : line[i] = ")"}

Min(S) == CHOOSE x \in S : \A y \in S : x <= y
Max(S) == CHOOSE x \in S : \A y \in S : x >= y

\* length of the maximal leading run of Japanese-class characters
RECURSIVE JpRun(_)
JpRun(s) == IF s # <<>> /\ IsJp(Head(s)) THEN 1 + JpRun(Tail(s)) ELSE 0

\* index of the first comma-like character of s, 0 when there is none
FirstComma(s) ==
    LET C == {i \in 1..Len(s) : IsComma(s[i])}
    IN  IF C = {} THEN 0 ELSE Min(C)

\* re.search(jp_char_class, s)
HasJp(s) == \E i \in 1..Len(s) : IsJp(s[i])

\* the accumulation loop: the prefix of s before its first Japanese character
RECURSIVE NonJpPrefix(_)
NonJpPrefix(s) ==
    IF s = <<>> \/ IsJp(Head(s)) THEN <<>>
    ELSE <<Head(s)>> \o NonJpPrefix(Tail(s))

\* the vocabulary branch of parse_passive_line, on a stripped line
VocabParse(line) ==
    LET k    == JpRun(line)
        rest == Slice(line, k + 1, Len(line))
        lead == LStrip(rest)
    IN  \* ^(jp+)(\s*[^ \s jp].*)$ : the greedy front is the maximal run; a
        \* shorter front would leave a Japanese character where the pattern
        \* wants a character outside the class, so no backtracking succeeds
        IF k = 0 \/ lead = <<>> \/ IsJp(Head(lead)) THEN NoCard
        ELSE LET potential == Strip(rest)
                 ci        == FirstComma(potential)
                 after     == Slice(potential, ci + 1, Len(potential))
                 final     == IF ci # 0 /\ HasJp(after) THEN potential
                              ELSE Strip(NonJpPrefix(potential))
             IN  IF final # <<>>
                 THEN [front |-> Strip(Slice(line, 1, k)), back |-> final,
                       tag |-> "None"]
                 ELSE NoCard

\* (mutant: the script-boundary rule is tried before the full-width rule)
parse_passive_line_VocabFirst(raw) ==
    LET line == Strip(RemoveZW(raw))
    IN  IF line = <<>> THEN NoCard
        ELSE IF line[1] = "(" /\ KanjiCloses(line) # {}
        THEN LET i == Min(KanjiCloses(line))
             IN  [front |-> Strip(Slice(line, 1, i)),
                  back  |-> Strip(Slice(line, i + 1, Len(line))),
                  tag   |-> PASSIVE_KANJI_TAG]
        ELSE IF VocabParse(line) # NoCard THEN VocabParse(line)
        ELSE LET F  == {i \in 1..Len(line) : line[i] = "FW"}
                 fw == IF F = {} THEN 0 ELSE Min(F)
                 fr == Strip(Slice(line, 1, fw - 1))
                 bk == Strip(Slice(line, fw + 1, Len(line)))
             IN  IF fw # 0 /\ fr # <<>> /\ bk # <<>>
                 THEN [front |-> fr, back |-> bk, tag |-> "None"]
                 ELSE NoCard

parse_passive_line(raw) ==
    LET line == Strip(RemoveZW(raw))
    IN  IF line = <<>> THEN NoCard
        ELSE IF line[1] = "(" /\ KanjiCloses(line) # {}
        THEN LET i == Min(KanjiCloses(line))
             IN  [front |-> Strip(Slice(line, 1, i)),
                  back  |-> Strip(Slice(line, i + 1, Len(line))),
                  tag   |-> PASSIVE_KANJI_TAG]
        ELSE LET F  == {i \in 1..Len(line) : line[i] = "FW"}
                 fw == IF F = {} THEN 0 ELSE Min(F)
                 fr == Strip(Slice(line, 1, fw - 1))
                 bk == Strip(Slice(line, fw + 1, Len(line)))
             IN  IF fw # 0 /\ fr # <<>> /\ bk # <<>>
                 THEN [front |-> fr, back |-> bk, tag |-> "None"]
                 ELSE VocabParse(line)

\* positions i of a closing parenthesis that can end group 1 of the greedy
\* ^(\(.+\))\s*(.+)$
ActiveCloses(line) == KanjiCloses(line)

\* positions i of an opening parenthesis that can start group 2 of
\* ^(.+?)\s*(\(.+\))$ : text before it, a character inside, ")" at the end
ActiveOpens(line) ==
    {i \in 2..(Len(line) - 2) : line[i] = "(" /\ line[Len(line)] = ")"}

parse_active_line(raw) ==
    LET line == Strip(RemoveZW(raw))
    IN  IF line = <<>> THEN NoCard
        ELSE IF line[1] = "(" /\ ActiveCloses(line) # {}
        THEN LET i == Max(ActiveCloses(line))
             IN  [front |-> Strip(Slice(line, 1, i)),
                  back  |-> Strip(Slice(line, i + 1, Len(line))),
                  tag   |-> "None"]
        ELSE IF ActiveOpens(line) # {}
        THEN LET i == Min(ActiveOpens(line))
             IN  [front |-> Strip(Slice(line, i, Len(line))),
                  back  |-> Strip(Slice(line, 1, i - 1)),
                  tag   |-> "None"]
        ELSE NoCard


\* ------------------------------------------------------------------------
\* Configuration (config.py)
\* ------------------------------------------------------------------------

PASSIVE_DECK_NAME == "Japanese::Passive"
ACTIVE_DECK_NAME  == "Japanese::Active"
MODEL_NAME        == "Basic"

\* the deck names of PROCESSING_CONFIGS; one input pane each
Decks == {PASSIVE_DECK_NAME, ACTIVE_DECK_NAME}

\* "(a)a": front "(a)", back "a" under both profiles
LineA == <<"(", "a", ")", "a">>
\* "(a)J": the same front with another back
LineB == <<"(", "a", ")", "J">>
\* "(J)a" and "(J)J": another front, twice
LineC == <<"(", "J", ")", "a">>
LineD == <<"(", "J", ")", "J">>
\* "a": matches no rule of either profile
LineX == <<"a">>
\* "J": a single Japanese character, which matches no rule of either profile
LineY == <<"J">>
\* a line of whitespace
LineBlank == <<" ">>

\* the lines of the input texts
InputLineSet == {LineA, LineB, LineC, LineD, LineX, LineY, LineBlank}

\* what the two parsers return for the lines of the input texts, computed
\* once (the parsers are pure: the same line gives the same card every time)
ParsedLine ==
    [d \in Decks, l \in InputLineSet |->
        IF d = PASSIVE_DECK_NAME THEN parse_passive_line(l)
        ELSE parse_active_line(l)]

\* getattr(parsers, deck_config["parser_func_name"])
parser_func(deck, line) ==
    IF <<deck, line>> \in DOMAIN ParsedLine THEN ParsedLine[deck, line]
    ELSE IF deck = PASSIVE_DECK_NAME THEN parse_passive_line(line)
    ELSE parse_active_line(line)

\* deck_config["tag_generation_func"]
tag_func(deck, tag_suffix) ==
    IF deck = PASSIVE_DECK_NAME /\ tag_suffix = PASSIVE_KANJI_TAG
    THEN <<PASSIVE_KANJI_TAG>> ELSE <<>>

\* ------------------------------------------------------------------------
\* Bounds of the model
\* ------------------------------------------------------------------------

\* import runs launched in one behaviour
MaxRuns == 2
\* store requests that fail (URLError, error response or other exception)
MaxFaults == 1
\* resolution-action button clicks in one behaviour
MaxClicks == 2

\* ------------------------------------------------------------------------
\* State
\* ------------------------------------------------------------------------

VARIABLES
    text,            \* pane.text_widget content per deck: a sequence of lines
    start_button,    \* pane.start_button state per deck
    progress_bar,    \* pane.progress_bar["value"] per deck
    progress_label,  \* pane.progress_label text per deck
    import_queue,    \* self.import_queue, the channel to the consumer
    runs,            \* the import worker threads: run id -> locals of _import_worker
    nextRun,         \* number of runs launched so far
    anki_decks,      \* the store: names of the decks that exist
    anki_notes,      \* the store: notes by id (position)
    items,           \* the skipped-card frames of the result windows
    windows,         \* the ImportResultsWindow instances that are open
    grab,            \* the window holding the grab (grab_set), 0 for none
    tasks,           \* the resolution-action worker threads
    reset_timers,    \* pending root.after(3000, reset_progress) per deck
    widget_thread,   \* the thread that touched widget state last
    runs_left,       \* import runs that may still be launched
    faults_left,     \* store requests that may still fail
    clicks_left      \* resolution-action clicks that may still happen

vars == <<text, start_button, progress_bar, progress_label, import_queue, runs,
          nextRun, anki_decks, anki_notes, items, windows, grab, tasks,
          reset_timers, widget_thread, runs_left, faults_left, clicks_left>>

\* ------------------------------------------------------------------------
\* The store (AnkiConnect) and the client (anki_utils.py)
\* ------------------------------------------------------------------------

\* Python's None
None == "None"

\* "note_id": None of a card skipped as a duplicate within the batch
NoNote == 0

\* How one anki_request ends:
\*   "ok"        the store performs the action and answers {result, error: null}
\*   "urlerror"  urllib.error.URLError: anki_request logs and returns None
\*   "error"     the store answers {result: null, error: message}
\*   "raise"     any other exception (a dropped connection after the request
\*               was sent, a body that is not JSON): it leaves anki_request
Outcomes == {"ok", "urlerror", "error", "raise"}

\* a value returned by anki_request: None, or the decoded response
NoResponse       == [kind |-> "None"]
\* (null: the response's result is null and its error is set)
Response(result) == [kind |-> "response", null |-> FALSE, result |-> result]
ErrorResponse    == [kind |-> "response", null |-> TRUE, result |-> <<>>]

\* what anki_request returns for an outcome that returns
anki_request(outcome, result) ==
    CASE outcome = "ok"       -> Response(result)
      [] outcome = "error"    -> ErrorResponse
      [] outcome = "urlerror" -> NoResponse

\* `not response or not response.get("result")`
NoResult(response) ==
    \/ response.kind = "None"
    \/ response.null
    \/ response.result = <<>>

\* the card of a note (the Basic model has one card per note)
CardOf(nid) == <<"card", nid>>
NoteOfCard(cid) == cid[2]

\* elements of a sequence
Range(s) == {s[i] : i \in DOMAIN s}

\* the store's answer to findNotes for ("Front:f1" or "Front:f2" ...):
\* the ids of the notes, of any deck, whose front is one of the fronts
RECURSIVE FindNotes(_, _, _)
FindNotes(notes, fronts, from) ==
    IF from > Len(notes) THEN <<>>
    ELSE (IF notes[from].front \in fronts THEN <<from>> ELSE <<>>)
         \o FindNotes(notes, fronts, from + 1)

\* the store's answer to notesInfo
NotesInfo(notes, ids) ==
    [i \in DOMAIN ids |->
        [noteId |-> ids[i], Front |-> notes[ids[i]].front,
         Back |-> notes[ids[i]].back, cards |-> <<CardOf(ids[i])>>,
         deckName |-> None]]

\* the store's answer to cardsInfo
CardsInfo(notes, cids) ==
    [i \in DOMAIN cids |->
        [cardId |-> cids[i], deckName |-> notes[NoteOfCard(cids[i])].deck]]

\* get_info_for_existing_notes, lines 69-78: the deck of the first card
WithDeckNames(notes_info, cards_response) ==
    IF NoResult(cards_response) THEN notes_info
    ELSE [i \in DOMAIN notes_info |->
            LET hits == {j \in DOMAIN cards_response.result :
                           cards_response.result[j].cardId = notes_info[i].cards[1]}
            IN  IF hits = {} THEN notes_info[i]
                ELSE [notes_info[i] EXCEPT
                        !.deckName = cards_response.result[Max(hits)].deckName]]

\* (mutant: only the notes that live in a deck of one of the profiles count)
ExistingNotesMap_DeckScoped(notes_info) ==
    LET own == {i \in DOMAIN notes_info : notes_info[i].deckName \in Decks}
    IN  [f \in {notes_info[i].Front : i \in own} |->
            notes_info[Max({i \in own : notes_info[i].Front = f})]]

\* get_info_for_existing_notes, lines 81-84: {front: info}; a later note of
\* the same front replaces an earlier one
ExistingNotesMap(notes_info) ==
    [f \in {notes_info[i].Front : i \in DOMAIN notes_info} |->
        notes_info[Max({i \in DOMAIN notes_info : notes_info[i].Front = f})]]

\* the store's addNotes: the notes are added one after the other; a note
\* with allowDuplicate false whose front some note already has is rejected
\* (null at its position)
RECURSIVE AddNotes(_, _)
AddNotes(notes, to_add) ==
    IF to_add = <<>> THEN [notes |-> notes, result |-> <<>>]
    ELSE LET n      == Head(to_add)
             dup    == \E i \in DOMAIN notes : notes[i].front = n.fields.Front
             reject == ~n.options.allowDuplicate /\ dup
             next   == IF reject THEN notes
                       ELSE Append(notes, [front |-> n.fields.Front,
                                           back  |-> n.fields.Back,
                                           deck  |-> n.deckName,
                                           sched |-> "new"])
             rec    == AddNotes(next, Tail(to_add))
         IN  [notes  |-> rec.notes,
              result |-> <<IF reject THEN NoNote ELSE Len(next)>> \o rec.result]

\* ------------------------------------------------------------------------
\* _import_worker: the computation between its requests (main_gui.py)
\* ------------------------------------------------------------------------

\* (mutant: the blank lines are kept)
NonBlankLines_All(txt) == txt

\* launch_import_thread, line 102: the lines that are not blank
RECURSIVE NonBlankLines(_)
NonBlankLines(txt) ==
    IF txt = <<>> THEN <<>>
    ELSE (IF Strip(Head(txt)) # <<>> THEN <<Head(txt)>> ELSE <<>>)
         \o NonBlankLines(Tail(txt))

\* the classification loop, lines 132-144
RECURSIVE Classify(_, _)
Classify(deck, lines) ==
    IF lines = <<>> THEN [parsed_cards |-> <<>>, unparsable_lines |-> <<>>]
    ELSE LET line == Head(lines)
             c    == parser_func(deck, line)
             rest == Classify(deck, Tail(lines))
         IN  IF c.front # <<>> /\ c.back # <<>>
             THEN [rest EXCEPT !.parsed_cards =
                     <<[front |-> c.front, back |-> c.back,
                        tags |-> tag_func(deck, c.tag), line |-> Strip(line)]>> \o @]
             ELSE [rest EXCEPT !.unparsable_lines = <<line>> \o @]

\* the state of the partition loop before its first card, lines 155-159
EmptyPartition ==
    [notes_to_add |-> <<>>, source_lines |-> <<>>, skipped_cards |-> <<>>,
     fronts_for_bulk_add |-> {}]

\* (mutant: no check against the fronts already staged in this batch)
PartitionCard_NoBatchCheck(deck, card, existing_notes_map, acc) ==
    IF card.front \in DOMAIN existing_notes_map
    THEN [acc EXCEPT !.skipped_cards = Append(@,
            [front |-> card.front, back_new |-> card.back,
             note_id  |-> existing_notes_map[card.front].noteId,
             back_old |-> existing_notes_map[card.front].Back])]
    ELSE [acc EXCEPT
            !.fronts_for_bulk_add = @ \cup {card.front},
            !.notes_to_add = Append(@,
                [deckName |-> deck, modelName |-> MODEL_NAME,
                 fields |-> [Front |-> card.front, Back |-> card.back],
                 options |-> [allowDuplicate |-> FALSE], tags |-> card.tags]),
            !.source_lines = Append(@, card.line)]

\* (mutant: the staged records allow duplicates)
PartitionCard_AllowDuplicate(deck, card, existing_notes_map, acc) ==
    IF card.front \in DOMAIN existing_notes_map
    THEN [acc EXCEPT !.skipped_cards = Append(@,
            [front |-> card.front, back_new |-> card.back,
             note_id  |-> existing_notes_map[card.front].noteId,
             back_old |-> existing_notes_map[card.front].Back])]
    ELSE IF card.front \in acc.fronts_for_bulk_add
    THEN [acc EXCEPT !.skipped_cards = Append(@,
            [front |-> card.front, back_new |-> card.back,
             note_id  |-> NoNote,
             back_old |-> <<"[Duplicate in this import session]">>])]
    ELSE [acc EXCEPT
            !.fronts_for_bulk_add = @ \cup {card.front},
            !.notes_to_add = Append(@,
                [deckName |-> deck, modelName |-> MODEL_NAME,
                 fields |-> [Front |-> card.front, Back |-> card.back],
                 options |-> [allowDuplicate |-> TRUE], tags |-> card.tags]),
            !.source_lines = Append(@, card.line)]

\* one pass of the partition loop for a card, lines 161-191
PartitionCard(deck, card, existing_notes_map, acc) ==
    IF card.front \in DOMAIN existing_notes_map
    THEN [acc EXCEPT !.skipped_cards = Append(@,
            [front |-> card.front, back_new |-> card.back,
             note_id  |-> existing_notes_map[card.front].noteId,
             back_old |-> existing_notes_map[card.front].Back])]
    ELSE IF card.front \in acc.fronts_for_bulk_add
    THEN [acc EXCEPT !.skipped_cards = Append(@,
            [front |-> card.front, back_new |-> card.back,
             note_id  |-> NoNote,
             back_old |-> <<"[Duplicate in this import session]">>])]
    ELSE [acc EXCEPT
            !.fronts_for_bulk_add = @ \cup {card.front},
            !.notes_to_add = Append(@,
                [deckName |-> deck, modelName |-> MODEL_NAME,
                 fields |-> [Front |-> card.front, Back |-> card.back],
                 options |-> [allowDuplicate |-> FALSE], tags |-> card.tags]),
            !.source_lines = Append(@, card.line)]

\* the partition loop, lines 155-191
RECURSIVE Partition(_, _, _, _)
Partition(deck, cards, existing_notes_map, acc) ==
    IF cards = <<>> THEN acc
    ELSE Partition(deck, Tail(cards), existing_notes_map,
                   PartitionCard(deck, Head(cards), existing_notes_map, acc))

\* number of the positions of a result list that are not null
RECURSIVE CountAdded(_)
CountAdded(results) ==
    IF results = <<>> THEN 0
    ELSE (IF Head(results) # NoNote THEN 1 ELSE 0) + CountAdded(Tail(results))

\* (mutant: the failed card of position i is built from the staged record
\* counted from the end)
RECURSIVE FailedOf_FromEnd(_, _, _, _)
FailedOf_FromEnd(results, notes_to_add, source_lines, i) ==
    IF i > Len(results) THEN <<>>
    ELSE (IF results[i] = NoNote
          THEN <<[front |-> notes_to_add[Len(results) + 1 - i].fields.Front,
                  back  |-> notes_to_add[Len(results) + 1 - i].fields.Back,
                  line  |-> source_lines[Len(results) + 1 - i]]>>
          ELSE <<>>)
         \o FailedOf_FromEnd(results, notes_to_add, source_lines, i + 1)

\* the failed cards of a result list, lines 209-218
RECURSIVE FailedOf(_, _, _, _)
FailedOf(results, notes_to_add, source_lines, i) ==
    IF i > Len(results) THEN <<>>
    ELSE (IF results[i] = NoNote
          THEN <<[front |-> notes_to_add[i].fields.Front,
                  back  |-> notes_to_add[i].fields.Back,
                  line  |-> source_lines[i]]>>
          ELSE <<>>)
         \o FailedOf(results, notes_to_add, source_lines, i + 1)

\* (mutant: a bulk add that failed outright leaves the failed count at 0)
Tally_NoBulkFailure(add_results, notes_to_add, source_lines, skipped_cards, unparsable_lines) ==
    LET failed_cards ==
            IF ~NoResult(add_results)
            THEN FailedOf(add_results.result, notes_to_add, source_lines, 1)
            ELSE <<>>
    IN  [counts |->
            [added |-> IF ~NoResult(add_results)
                       THEN CountAdded(add_results.result) ELSE 0,
             skipped |-> Len(skipped_cards),
             failed |-> Len(failed_cards),
             unparsable |-> Len(unparsable_lines)],
         failed_cards |-> failed_cards]

\* (mutant: after a bulk add that failed outright only the first staged
\* record is reported)
Tally_BulkFailureFirstOnly(add_results, notes_to_add, source_lines, skipped_cards, unparsable_lines) ==
    LET failed_cards ==
            IF ~NoResult(add_results)
            THEN FailedOf(add_results.result, notes_to_add, source_lines, 1)
            ELSE IF notes_to_add # <<>>
            THEN <<[front |-> notes_to_add[1].fields.Front,
                    back  |-> notes_to_add[1].fields.Back,
                    line  |-> source_lines[1]]>>
            ELSE <<>>
    IN  [counts |->
            [added |-> IF ~NoResult(add_results)
                       THEN CountAdded(add_results.result) ELSE 0,
             skipped |-> Len(skipped_cards),
             failed |-> Len(notes_to_add),
             unparsable |-> Len(unparsable_lines)],
         failed_cards |-> failed_cards]

\* lines 201-228: counts and failed cards of a run
Tally(add_results, notes_to_add, source_lines, skipped_cards, unparsable_lines) ==
    LET failed_cards ==
            IF ~NoResult(add_results)
            THEN FailedOf(add_results.result, notes_to_add, source_lines, 1)
            ELSE IF notes_to_add # <<>>
            THEN [i \in DOMAIN notes_to_add |->
                    [front |-> notes_to_add[i].fields.Front,
                     back  |-> notes_to_add[i].fields.Back,
                     line  |-> source_lines[i]]]
            ELSE <<>>
    IN  [counts |->
            [added |-> IF ~NoResult(add_results)
                       THEN CountAdded(add_results.result) ELSE 0,
             skipped |-> Len(skipped_cards),
             failed |-> Len(failed_cards),
             unparsable |-> Len(unparsable_lines)],
         failed_cards |-> failed_cards]

\* ------------------------------------------------------------------------
\* Inputs and initial state
\* ------------------------------------------------------------------------

\* what the user pasted into an input box
TextEmpty == <<LineBlank>>
TextOne   == <<LineA>>
TextBad   == <<LineX>>
TextFull  == <<LineA, LineBlank, LineX, LineB, LineC, LineD>>
TextAllBad == <<LineX, LineBlank, LineY>>
Texts     == {TextEmpty, TextOne, TextBad, TextAllBad, TextFull}

\* a note the store may hold before the first run: the front of LineA and
\* LineB, in a deck that is neither profile's
OldBack      == <<"o", "l", "d">>
ExistingNote == [front |-> <<"(", "a", ")">>, back |-> OldBack,
                 deck |-> "Default", sched |-> "suspended"]

\* the three resolution actions of a skipped-card frame
Kinds == {"append", "reset", "modify"}

\* AnkiImporterApp.__init__, before any user action: the widgets and the
\* empty queue
InitApp ==
    /\ start_button = [d \in Decks |-> "normal"]
    /\ progress_bar = [d \in Decks |-> 0]
    /\ progress_label = [d \in Decks |-> <<>>]
    /\ import_queue = <<>>
    /\ runs = <<>>
    /\ nextRun = 0
    /\ items = <<>>
    /\ windows = {}
    /\ grab = 0
    /\ tasks = <<>>
    /\ reset_timers = [d \in Decks |-> 0]
    /\ widget_thread = "main"

\* the store before the first run
InitStore ==
    /\ anki_decks \in {{}, Decks}
    /\ anki_notes \in {<<>>, <<ExistingNote>>}

\* ------------------------------------------------------------------------
\* launch_import_thread (main thread, the Start Import button)
\* ------------------------------------------------------------------------

\* raw_text.strip().split('\n') without the blank lines: the strip removes
\* the whitespace before the first and after the last line that is kept
InputLines(txt) ==
    LET ls == NonBlankLines(txt)
    IN  [i \in DOMAIN ls |->
            LET a == IF i = 1 THEN LStrip(ls[i]) ELSE ls[i]
            IN  IF i = Len(ls) THEN RStrip(a) ELSE a]

\* the locals of a fresh _import_worker thread
NewRun(deck, lines) ==
    [deck |-> deck, lines |-> lines, pc |-> "start",
     parsed_cards |-> <<>>, unparsable_lines |-> <<>>,
     existing_note_ids |-> <<>>, notes_info |-> <<>>,
     existing_notes_map |-> <<>>, partitioned |-> FALSE,
     notes_to_add |-> <<>>, source_lines |-> <<>>, skipped_cards |-> <<>>,
     add_results |-> NoResponse,
     counts |-> [added |-> 0, skipped |-> 0, failed |-> 0, unparsable |-> 0],
     failed_cards |-> <<>>,
     emitted |-> <<>>, requests |-> <<>>]

\* (mutant: the button is left enabled)
StartButtonWhileRunning_Enabled == "normal"

\* line 100: pane.start_button.config(state=tk.DISABLED)
StartButtonWhileRunning == "disabled"

Launch(d) ==
    /\ start_button[d] = "normal"
    /\ grab = 0
    /\ runs_left > 0
    /\ LET lines == InputLines(text[d])
       IN  IF lines = <<>>
           THEN \* "No Input": the button is enabled again, nothing starts
                /\ start_button' = [start_button EXCEPT ![d] = "normal"]
                /\ UNCHANGED <<runs, nextRun, runs_left, progress_bar>>
           ELSE /\ start_button' = [start_button EXCEPT ![d] = StartButtonWhileRunning]
                /\ runs' = ((nextRun + 1) :> NewRun(d, lines)) @@ runs
                /\ nextRun' = nextRun + 1
                /\ runs_left' = runs_left - 1
                /\ progress_bar' = [progress_bar EXCEPT ![d] = 0]
    /\ widget_thread' = "main"
    /\ UNCHANGED <<text, progress_label, import_queue, anki_decks, anki_notes,
                   items, windows, grab, tasks, reset_timers, faults_left, clicks_left>>

\* ------------------------------------------------------------------------
\* _import_worker (one background thread per run)
\* ------------------------------------------------------------------------

\* a store request fails only while the fault budget lasts
Fault(o) ==
    IF o = "ok" THEN faults_left' = faults_left
    ELSE faults_left > 0 /\ faults_left' = faults_left - 1

\* q.put of a message by run r, with the run's record updated to rec
Emit(r, rec, msg) ==
    /\ import_queue' = Append(import_queue, msg)
    /\ runs' = [runs EXCEPT ![r] = [rec EXCEPT !.emitted = Append(@, msg.type)]]

\* (mutant: every progress event carries the same value)
ProgressMsg_Flat(r, value, label) ==
    [type |-> "progress_update", deck_name |-> runs[r].deck, value |-> 50,
     text |-> label, run |-> r]

ProgressMsg(r, value, label) ==
    [type |-> "progress_update", deck_name |-> runs[r].deck, value |-> value,
     text |-> label, run |-> r]

ErrorMsg(r, message) ==
    [type |-> "error", deck_name |-> runs[r].deck, message |-> message, run |-> r]

\* rec with the request and how it ended logged
Requested(rec, action, o) == [rec EXCEPT !.requests = Append(@, <<action, o>>)]

\* rec after the partition loop over its parsed cards
Partitioned(rec, existing_notes_map) ==
    LET p == Partition(rec.deck, rec.parsed_cards, existing_notes_map, EmptyPartition)
    IN  [rec EXCEPT !.existing_notes_map = existing_notes_map,
                    !.partitioned = TRUE,
                    !.notes_to_add = p.notes_to_add,
                    !.source_lines = p.source_lines,
                    !.skipped_cards = p.skipped_cards,
                    !.pc = "put65"]

\* ensure_deck_exists, lines 28-32: what follows the deckNames request
\* (a response whose result is null makes `deck_name not in None` raise)
DeckNamesVerdict(deck, o, decks) ==
    CASE o = "urlerror" -> "putDeckError"
      [] o = "error"    -> "putCritical"
      [] o = "raise"    -> "putCritical"
      [] o = "ok"       -> IF deck \in decks THEN "put15" ELSE "createDeck"

\* (mutant: the createDeck response is not looked at)
CreateDeckVerdict_Ignored(o) ==
    IF o = "raise" THEN "putCritical" ELSE "put15"

\* ensure_deck_exists, lines 34-38: what follows the createDeck request
CreateDeckVerdict(o) ==
    CASE o = "urlerror" -> "putDeckError"
      [] o = "error"    -> "putDeckError"
      [] o = "raise"    -> "putCritical"
      [] o = "ok"       -> "put15"

\* (mutant: the `return` is missing and the run goes on to parse)
AfterDeckError_NoReturn == "put15"

\* line 129: `return` after the deck error was put
AfterDeckError == "done"

\* line 235: `except Exception` around the body of the worker
OnException == "putCritical"

WorkerCommon ==
    UNCHANGED <<text, start_button, progress_bar, progress_label, nextRun, items,
                windows, grab, tasks, reset_timers, widget_thread, runs_left,
                clicks_left>>

\* line 126
W_PutChecking(r) ==
    /\ runs[r].pc = "start"
    /\ Emit(r, [runs[r] EXCEPT !.pc = "deckNames"],
            ProgressMsg(r, 5, <<"Checking deck...">>))
    /\ UNCHANGED <<anki_decks, anki_notes, faults_left>>
    /\ WorkerCommon

\* line 127, ensure_deck_exists: the deckNames request
W_DeckNames(r, o) ==
    /\ runs[r].pc = "deckNames"
    /\ Fault(o)
    /\ runs' = [runs EXCEPT ![r] =
          [Requested(@, "deckNames", o) EXCEPT
              !.pc = DeckNamesVerdict(runs[r].deck, o, anki_decks)]]
    /\ UNCHANGED <<import_queue, anki_decks, anki_notes>>
    /\ WorkerCommon

\* line 127, ensure_deck_exists: the createDeck request
W_CreateDeck(r, o) ==
    /\ runs[r].pc = "createDeck"
    /\ Fault(o)
    /\ runs' = [runs EXCEPT ![r] =
          [Requested(@, "createDeck", o) EXCEPT !.pc = CreateDeckVerdict(o)]]
    /\ anki_decks' = IF o = "ok" THEN anki_decks \cup {runs[r].deck} ELSE anki_decks
    /\ UNCHANGED <<import_queue, anki_notes>>
    /\ WorkerCommon

\* lines 128-129
W_PutDeckError(r) ==
    /\ runs[r].pc = "putDeckError"
    /\ Emit(r, [runs[r] EXCEPT !.pc = AfterDeckError],
            ErrorMsg(r, <<"Could not create/find deck", runs[r].deck>>))
    /\ UNCHANGED <<anki_decks, anki_notes, faults_left>>
    /\ WorkerCommon

\* lines 131-144: the progress event, then the classification loop
W_PutParsing(r) ==
    /\ runs[r].pc = "put15"
    /\ LET c == Classify(runs[r].deck, runs[r].lines)
       IN  Emit(r, [runs[r] EXCEPT !.pc = "put50",
                                   !.parsed_cards = c.parsed_cards,
                                   !.unparsable_lines = c.unparsable_lines],
                ProgressMsg(r, 15, <<"Parsing", Len(runs[r].lines)>>))
    /\ UNCHANGED <<anki_decks, anki_notes, faults_left>>
    /\ WorkerCommon

\* (mutant: the lookup is requested even for no fronts)
W_PutCheckingDuplicates_AlwaysLookup(r) ==
    /\ runs[r].pc = "put50"
    /\ Emit(r, [runs[r] EXCEPT !.pc = "findNotes"],
            ProgressMsg(r, 50, <<"Checking for duplicates", Len(runs[r].parsed_cards)>>))
    /\ UNCHANGED <<anki_decks, anki_notes, faults_left>>
    /\ WorkerCommon

\* lines 150-153 and get_info_for_existing_notes, lines 46-47
W_PutCheckingDuplicates(r) ==
    /\ runs[r].pc = "put50"
    /\ Emit(r, IF runs[r].parsed_cards = <<>>
               THEN Partitioned(runs[r], <<>>)
               ELSE [runs[r] EXCEPT !.pc = "findNotes"],
            ProgressMsg(r, 50, <<"Checking for duplicates", Len(runs[r].parsed_cards)>>))
    /\ UNCHANGED <<anki_decks, anki_notes, faults_left>>
    /\ WorkerCommon

\* get_info_for_existing_notes, lines 50-60: the findNotes request
W_FindNotes(r, o) ==
    /\ runs[r].pc = "findNotes"
    /\ Fault(o)
    /\ LET rec == Requested(runs[r], "findNotes", o)
           all_fronts == {rec.parsed_cards[i].front : i \in DOMAIN rec.parsed_cards}
       IN  runs' = [runs EXCEPT ![r] =
              IF o = "raise" THEN [rec EXCEPT !.pc = OnException]
              ELSE LET find_response ==
                          anki_request(o, FindNotes(anki_notes, all_fronts, 1))
                   IN  IF NoResult(find_response) THEN Partitioned(rec, <<>>)
                       ELSE [rec EXCEPT !.existing_note_ids = find_response.result,
                                        !.pc = "notesInfo"]]
    /\ UNCHANGED <<import_queue, anki_decks, anki_notes>>
    /\ WorkerCommon

\* get_info_for_existing_notes, lines 61-69: the notesInfo request
W_NotesInfo(r, o) ==
    /\ runs[r].pc = "notesInfo"
    /\ Fault(o)
    /\ LET rec == Requested(runs[r], "notesInfo", o)
       IN  runs' = [runs EXCEPT ![r] =
              IF o = "raise" THEN [rec EXCEPT !.pc = OnException]
              ELSE LET info_response ==
                          anki_request(o, NotesInfo(anki_notes, rec.existing_note_ids))
                   IN  IF NoResult(info_response) THEN Partitioned(rec, <<>>)
                       ELSE [rec EXCEPT !.notes_info = info_response.result,
                                        !.pc = "cardsInfo"]]
    /\ UNCHANGED <<import_queue, anki_decks, anki_notes>>
    /\ WorkerCommon

\* get_info_for_existing_notes, lines 70-84: the cardsInfo request, the map,
\* and the partition loop of the worker
W_CardsInfo(r, o) ==
    /\ runs[r].pc = "cardsInfo"
    /\ Fault(o)
    /\ LET rec == Requested(runs[r], "cardsInfo", o)
           all_card_ids == [i \in DOMAIN rec.notes_info |-> rec.notes_info[i].cards[1]]
       IN  runs' = [runs EXCEPT ![r] =
              IF o = "raise" THEN [rec EXCEPT !.pc = OnException]
              ELSE LET cards_info_response ==
                          anki_request(o, CardsInfo(anki_notes, all_card_ids))
                       notes_info == WithDeckNames(rec.notes_info, cards_info_response)
                   IN  Partitioned([rec EXCEPT !.notes_info = notes_info],
                                   ExistingNotesMap(notes_info))]
    /\ UNCHANGED <<import_queue, anki_decks, anki_notes>>
    /\ WorkerCommon

\* (mutant: the addNotes request is issued even when nothing is staged)
W_PutAdding_AlwaysAdd(r) ==
    /\ runs[r].pc = "put65"
    /\ Emit(r, [runs[r] EXCEPT !.pc = "addNotes"],
            ProgressMsg(r, 65, <<"Adding", Len(runs[r].notes_to_add)>>))
    /\ UNCHANGED <<anki_decks, anki_notes, faults_left>>
    /\ WorkerCommon

\* line 195 and add_notes_bulk, lines 92-93
W_PutAdding(r) ==
    /\ runs[r].pc = "put65"
    /\ Emit(r, [runs[r] EXCEPT
                  !.pc = IF runs[r].notes_to_add = <<>> THEN "put95" ELSE "addNotes"],
            ProgressMsg(r, 65, <<"Adding", Len(runs[r].notes_to_add)>>))
    /\ UNCHANGED <<anki_decks, anki_notes, faults_left>>
    /\ WorkerCommon

\* line 196, add_notes_bulk: the addNotes request
W_AddNotes(r, o) ==
    /\ runs[r].pc = "addNotes"
    /\ Fault(o)
    /\ LET rec   == Requested(runs[r], "addNotes", o)
           added == AddNotes(anki_notes, rec.notes_to_add)
       IN  /\ runs' = [runs EXCEPT ![r] =
                 IF o = "raise" THEN [rec EXCEPT !.pc = OnException]
                 ELSE [rec EXCEPT !.add_results = anki_request(o, added.result),
                                  !.pc = "put95"]]
           /\ anki_notes' = IF o = "ok" THEN added.notes ELSE anki_notes
    /\ UNCHANGED <<import_queue, anki_decks>>
    /\ WorkerCommon

\* lines 198-228: the progress event, then the counts
W_PutFinalizing(r) ==
    /\ runs[r].pc = "put95"
    /\ LET t == Tally(runs[r].add_results, runs[r].notes_to_add, runs[r].source_lines,
                      runs[r].skipped_cards, runs[r].unparsable_lines)
       IN  Emit(r, [runs[r] EXCEPT !.pc = "putComplete", !.counts = t.counts,
                                   !.failed_cards = t.failed_cards],
                ProgressMsg(r, 95, <<"Finalizing...">>))
    /\ UNCHANGED <<anki_decks, anki_notes, faults_left>>
    /\ WorkerCommon

\* lines 230-233
W_PutComplete(r) ==
    /\ runs[r].pc = "putComplete"
    /\ Emit(r, [runs[r] EXCEPT !.pc = "done"],
            [type |-> "complete", deck_name |-> runs[r].deck,
             counts |-> runs[r].counts, skipped_cards |-> runs[r].skipped_cards,
             failed_cards |-> runs[r].failed_cards,
             unparsable_lines |-> runs[r].unparsable_lines, run |-> r])
    /\ UNCHANGED <<anki_decks, anki_notes, faults_left>>
    /\ WorkerCommon

\* (mutant: the except clause logs the exception and puts nothing)
W_PutCritical_Silent(r) ==
    /\ runs[r].pc = "putCritical"
    /\ runs' = [runs EXCEPT ![r].pc = "done"]
    /\ UNCHANGED <<import_queue, anki_decks, anki_notes, faults_left>>
    /\ WorkerCommon

\* lines 235-238
W_PutCritical(r) ==
    /\ runs[r].pc = "putCritical"
    /\ Emit(r, [runs[r] EXCEPT !.pc = "done"],
            ErrorMsg(r, <<"A critical error occurred">>))
    /\ UNCHANGED <<anki_decks, anki_notes, faults_left>>
    /\ WorkerCommon

\* ------------------------------------------------------------------------
\* process_import_queue (main thread, every 100 ms) and reset_progress
\* ------------------------------------------------------------------------

\* f without the key k
Without(f, k) == [x \in DOMAIN f \ {k} |-> f[x]]

\* (mutant: the three buttons are made for every skipped card)
NewItem_AlwaysButtons(win, card) ==
    [win |-> win, card |-> card, exists |-> TRUE,
     buttons |-> [k \in Kinds |-> TRUE],
     removed_by |-> "none", removed_ok |-> TRUE]

\* create_skipped_card_frame: the frame of one skipped card in window win;
\* the three buttons exist only when the card has a note id
NewItem(win, card) ==
    [win |-> win, card |-> card, exists |-> TRUE,
     buttons |-> [k \in Kinds |-> card.note_id # NoNote],
     removed_by |-> "none", removed_ok |-> TRUE]

\* ImportResultsWindow.__init__, lines 343-347: one frame per skipped card
NewItems(win, skipped_cards) ==
    [i \in DOMAIN skipped_cards |-> NewItem(win, skipped_cards[i])]

\* line 267
HasIssues(msg) ==
    msg.skipped_cards # <<>> \/ msg.failed_cards # <<>> \/ msg.unparsable_lines # <<>>

\* (mutant: every frame that exists is destroyed)
Destroyed_Every(its, msg) ==
    [i \in DOMAIN its |->
        IF its[i].exists
        THEN [its[i] EXCEPT !.exists = FALSE, !.removed_by = msg.kind,
                            !.removed_ok = msg.action_ok]
        ELSE its[i]]

\* lines 244-248: widget.destroy() of a frame that still exists
Destroyed(its, msg) ==
    IF msg.widget \in DOMAIN its /\ its[msg.widget].exists
    THEN [its EXCEPT ![msg.widget] =
            [@ EXCEPT !.exists = FALSE, !.removed_by = msg.kind,
                      !.removed_ok = msg.action_ok]]
    ELSE its

Consume ==
    /\ import_queue # <<>>
    /\ import_queue' = Tail(import_queue)
    /\ widget_thread' = "main"
    /\ LET msg == Head(import_queue)
       IN  IF msg.type = "destroy_widget"
           THEN /\ items' = Destroyed(items, msg)
                /\ UNCHANGED <<start_button, progress_bar, progress_label, runs,
                               windows, grab, reset_timers>>
           ELSE IF msg.deck_name \notin Decks
           THEN UNCHANGED <<start_button, progress_bar, progress_label, runs,
                            items, windows, grab, reset_timers>>
           ELSE LET d == msg.deck_name
                IN  CASE msg.type = "progress_update" ->
                           /\ progress_label' = [progress_label EXCEPT ![d] = msg.text]
                           /\ progress_bar' = [progress_bar EXCEPT ![d] = msg.value]
                           /\ UNCHANGED <<start_button, runs, items, windows, grab,
                                          reset_timers>>
                      [] msg.type = "complete" ->
                           /\ start_button' = [start_button EXCEPT ![d] = "normal"]
                           /\ progress_label' = [progress_label EXCEPT ![d] = <<"Done!">>]
                           /\ progress_bar' = [progress_bar EXCEPT ![d] = 100]
                           /\ IF HasIssues(msg)
                              THEN /\ items' = items \o NewItems(msg.run, msg.skipped_cards)
                                   /\ windows' = windows \cup {msg.run}
                                   /\ grab' = msg.run
                              ELSE UNCHANGED <<items, windows, grab>>
                           /\ reset_timers' = [reset_timers EXCEPT ![d] = @ + 1]
                           /\ runs' = Without(runs, msg.run)
                      [] msg.type = "error" ->
                           /\ start_button' = [start_button EXCEPT ![d] = "normal"]
                           /\ progress_label' = [progress_label EXCEPT ![d] = <<"Error!">>]
                           /\ progress_bar' = [progress_bar EXCEPT ![d] = 0]
                           /\ runs' = Without(runs, msg.run)
                           /\ UNCHANGED <<items, windows, grab, reset_timers>>
    /\ UNCHANGED <<text, nextRun, anki_decks, anki_notes, tasks, runs_left,
                   faults_left, clicks_left>>

\* reset_progress, fired by root.after(3000, ...) of a completed run
ResetProgress(d) ==
    /\ reset_timers[d] > 0
    /\ reset_timers' = [reset_timers EXCEPT ![d] = @ - 1]
    /\ progress_label' = [progress_label EXCEPT ![d] = <<>>]
    /\ progress_bar' = [progress_bar EXCEPT ![d] = 0]
    /\ widget_thread' = "main"
    /\ UNCHANGED <<text, start_button, import_queue, runs, nextRun, anki_decks,
                   anki_notes, items, windows, grab, tasks, runs_left, faults_left,
                   clicks_left>>

\* the user closes a result window: the window and its frames are destroyed
\* and its grab is released
CloseWindow(w) ==
    /\ w \in windows
    /\ grab \in {0, w}
    /\ windows' = windows \ {w}
    /\ grab' = 0
    /\ items' = [i \in DOMAIN items |->
                    IF items[i].win = w /\ items[i].exists
                    THEN [items[i] EXCEPT !.exists = FALSE, !.removed_by = "close"]
                    ELSE items[i]]
    /\ widget_thread' = "main"
    /\ UNCHANGED <<text, start_button, progress_bar, progress_label, import_queue,
                   runs, nextRun, anki_decks, anki_notes, tasks, reset_timers,
                   runs_left, faults_left, clicks_left>>

\* ------------------------------------------------------------------------
\* Resolution actions (create_skipped_card_frame)
\* ------------------------------------------------------------------------

\* the separator of on_append, line 437
Separator == <<"<br><hr>">>

\* (mutant: on_reset goes to the unsuspend request without the lookup)
FirstStep_NoLookup(kind) ==
    CASE kind = "append" -> "updateNoteFields"
      [] kind = "reset"  -> "unsuspend"
      [] kind = "modify" -> "guiEditNote"

\* (mutant: on_reset writes the merged back like on_append)
FirstStep_ResetUpdates(kind) ==
    CASE kind = "append" -> "updateNoteFields"
      [] kind = "reset"  -> "updateNoteFields"
      [] kind = "modify" -> "guiEditNote"

\* (mutant: on_append reschedules first)
FirstStep_ResetFirst(kind) ==
    CASE kind = "append" -> "findCards"
      [] kind = "reset"  -> "findCards"
      [] kind = "modify" -> "guiEditNote"

\* the first request of on_append / on_reset / on_modify
FirstStep(kind) ==
    CASE kind = "append" -> "updateNoteFields"
      [] kind = "reset"  -> "findCards"
      [] kind = "modify" -> "guiEditNote"

\* (mutant: only the button that was pressed is disabled)
ButtonsAfterClick_OnlyPressed(buttons, kind) == [buttons EXCEPT ![kind] = FALSE]

\* run_task_in_thread, lines 411-412: every button of the frame is disabled
ButtonsAfterClick(buttons, kind) == [k \in Kinds |-> FALSE]

\* a key for a new worker thread
FreshKey(f) == Min({n \in 1..(Cardinality(DOMAIN f) + 1) : n \notin DOMAIN f})

\* a button of a skipped-card frame is pressed (main thread)
Click(i, kind) ==
    /\ i \in DOMAIN items
    /\ items[i].exists
    /\ items[i].buttons[kind]
    /\ grab \in {0, items[i].win}
    /\ clicks_left > 0
    /\ clicks_left' = clicks_left - 1
    /\ items' = [items EXCEPT ![i].buttons = ButtonsAfterClick(@, kind)]
    /\ tasks' = (FreshKey(tasks) :>
                    [item |-> i, kind |-> kind, pc |-> FirstStep(kind),
                     card_ids |-> <<>>, ok |-> TRUE, requests |-> <<>>]) @@ tasks
    /\ widget_thread' = "main"
    /\ UNCHANGED <<text, start_button, progress_bar, progress_label, import_queue,
                   runs, nextRun, anki_decks, anki_notes, windows, grab,
                   reset_timers, runs_left, faults_left>>

TaskCommon ==
    UNCHANGED <<text, start_button, progress_bar, progress_label, runs, nextRun,
                windows, grab, reset_timers, runs_left, clicks_left>>

\* the task after a request of outcome o: an exception leaves the target
\* function; any other failure is returned and ignored
TaskAfter(task, action, o, pc) ==
    [task EXCEPT !.requests = Append(@, <<action, o>>),
                 !.ok = @ /\ o = "ok",
                 !.pc = IF o = "raise" THEN "except" ELSE pc]

\* on_append, lines 437-438: update_note_fields with the cached old back
UpdatedBack(card) == card.back_old \o Separator \o card.back_new

T_UpdateNoteFields(t, o) ==
    /\ tasks[t].pc = "updateNoteFields"
    /\ Fault(o)
    /\ LET card == items[tasks[t].item].card
       IN  anki_notes' = IF o = "ok"
                         THEN [anki_notes EXCEPT ![card.note_id].back = UpdatedBack(card)]
                         ELSE anki_notes
    /\ tasks' = [tasks EXCEPT ![t] = TaskAfter(@, "updateNoteFields", o, "findCards")]
    /\ UNCHANGED <<import_queue, anki_decks, items, widget_thread>>
    /\ TaskCommon

\* on_modify, line 445: open_editor_for_note
T_GuiEditNote(t, o) ==
    /\ tasks[t].pc = "guiEditNote"
    /\ Fault(o)
    /\ tasks' = [tasks EXCEPT ![t] = TaskAfter(@, "guiEditNote", o, "findCards")]
    /\ UNCHANGED <<import_queue, anki_decks, anki_notes, items, widget_thread>>
    /\ TaskCommon

\* reset_cards, lines 128-138: the findCards request for nid:<note id>
T_FindCards(t, o) ==
    /\ tasks[t].pc = "findCards"
    /\ Fault(o)
    /\ LET nid == items[tasks[t].item].card.note_id
           response == anki_request(o, <<CardOf(nid)>>)
           after == TaskAfter(tasks[t], "findCards", o, "unsuspend")
       IN  tasks' = [tasks EXCEPT ![t] =
              IF o = "raise" THEN after
              ELSE IF NoResult(response) THEN [after EXCEPT !.pc = "putDestroy"]
              ELSE [after EXCEPT !.card_ids = response.result]]
    /\ UNCHANGED <<import_queue, anki_decks, anki_notes, items, widget_thread>>
    /\ TaskCommon

\* the cards of ids cids with their scheduling state replaced
Rescheduled(notes, cids, from, to) ==
    [n \in DOMAIN notes |->
        IF CardOf(n) \in Range(cids) /\ notes[n].sched \in from
        THEN [notes[n] EXCEPT !.sched = to] ELSE notes[n]]

\* reset_cards, line 140
T_Unsuspend(t, o) ==
    /\ tasks[t].pc = "unsuspend"
    /\ Fault(o)
    /\ anki_notes' = IF o = "ok"
                     THEN Rescheduled(anki_notes, tasks[t].card_ids, {"suspended"}, "due")
                     ELSE anki_notes
    /\ tasks' = [tasks EXCEPT ![t] = TaskAfter(@, "unsuspend", o, "forgetCards")]
    /\ UNCHANGED <<import_queue, anki_decks, items, widget_thread>>
    /\ TaskCommon

\* reset_cards, line 142
T_ForgetCards(t, o) ==
    /\ tasks[t].pc = "forgetCards"
    /\ Fault(o)
    /\ anki_notes' = IF o = "ok"
                     THEN Rescheduled(anki_notes, tasks[t].card_ids,
                                      {"suspended", "due", "new"}, "new")
                     ELSE anki_notes
    /\ tasks' = [tasks EXCEPT ![t] = TaskAfter(@, "forgetCards", o, "putDestroy")]
    /\ UNCHANGED <<import_queue, anki_decks, items, widget_thread>>
    /\ TaskCommon

\* worker, line 420: the target function returned
T_PutDestroy(t) ==
    /\ tasks[t].pc = "putDestroy"
    /\ import_queue' = Append(import_queue,
          [type |-> "destroy_widget", widget |-> tasks[t].item,
           kind |-> tasks[t].kind, action_ok |-> tasks[t].ok])
    /\ tasks' = Without(tasks, t)
    /\ UNCHANGED <<anki_decks, anki_notes, items, widget_thread, faults_left>>
    /\ TaskCommon

\* worker, lines 421-426: the target function raised; the worker thread
\* itself asks the frame whether it exists and enables its buttons
T_Except(t) ==
    /\ tasks[t].pc = "except"
    /\ widget_thread' = "worker"
    /\ items' = IF items[tasks[t].item].exists
                THEN [items EXCEPT ![tasks[t].item].buttons = [k \in Kinds |-> TRUE]]
                ELSE items
    /\ tasks' = Without(tasks, t)
    /\ UNCHANGED <<import_queue, anki_decks, anki_notes, faults_left>>
    /\ TaskCommon

\* ------------------------------------------------------------------------
\* The program
\* ------------------------------------------------------------------------

\* the main thread without the result windows' buttons: launches, the
\* consumer and its timers, closing a result window
MainSteps ==
    \/ \E d \in Decks : Launch(d)
    \/ Consume
    \/ \E d \in Decks : ResetProgress(d)
    \/ \E w \in windows : CloseWindow(w)

\* the steps of the import workers on the path to Complete
WorkerSteps ==
    \/ \E r \in DOMAIN runs : W_PutChecking(r)
    \/ \E r \in DOMAIN runs, o \in Outcomes : W_DeckNames(r, o)
    \/ \E r \in DOMAIN runs, o \in Outcomes : W_CreateDeck(r, o)
    \/ \E r \in DOMAIN runs : W_PutParsing(r)
    \/ \E r \in DOMAIN runs : W_PutCheckingDuplicates(r)
    \/ \E r \in DOMAIN runs, o \in Outcomes : W_FindNotes(r, o)
    \/ \E r \in DOMAIN runs, o \in Outcomes : W_NotesInfo(r, o)
    \/ \E r \in DOMAIN runs, o \in Outcomes : W_CardsInfo(r, o)
    \/ \E r \in DOMAIN runs : W_PutAdding(r)
    \/ \E r \in DOMAIN runs, o \in Outcomes : W_AddNotes(r, o)
    \/ \E r \in DOMAIN runs : W_PutFinalizing(r)
    \/ \E r \in DOMAIN runs : W_PutComplete(r)

\* the steps of the import workers that report an error
WorkerErrorSteps ==
    \/ \E r \in DOMAIN runs : W_PutDeckError(r)
    \/ \E r \in DOMAIN runs : W_PutCritical(r)

\* the import pipeline
NextImport == MainSteps \/ WorkerSteps \/ WorkerErrorSteps

\* the resolution actions of the result windows
NextResolve ==
    \/ \E i \in DOMAIN items, k \in Kinds : Click(i, k)
    \/ \E t \in DOMAIN tasks, o \in Outcomes : T_UpdateNoteFields(t, o)
    \/ \E t \in DOMAIN tasks, o \in Outcomes : T_GuiEditNote(t, o)
    \/ \E t \in DOMAIN tasks, o \in Outcomes : T_FindCards(t, o)
    \/ \E t \in DOMAIN tasks, o \in Outcomes : T_Unsuspend(t, o)
    \/ \E t \in DOMAIN tasks, o \in Outcomes : T_ForgetCards(t, o)
    \/ \E t \in DOMAIN tasks : T_PutDestroy(t)
    \/ \E t \in DOMAIN tasks : T_Except(t)

Next == NextImport \/ NextResolve

\* The whole program, for one import of the Passive box and the resolution
\* of its duplicates.
Init ==
    /\ InitApp
    /\ InitStore
    /\ text = [d \in Decks |-> IF d = PASSIVE_DECK_NAME THEN TextFull ELSE TextEmpty]
    /\ runs_left = 1
    /\ faults_left = MaxFaults
    /\ clicks_left = MaxClicks

Spec == Init /\ [][Next]_vars

\* The import pipeline alone (no button of a result window is pressed): any
\* text in one box, the other box empty, runs one after the other.
InitImport ==
    /\ InitApp
    /\ InitStore
    /\ text \in {f \in [Decks -> Texts] : \E d \in Decks : f[d] = TextEmpty}
    /\ runs_left = MaxRuns
    /\ faults_left = MaxFaults
    /\ clicks_left = 0

SpecImport == InitImport /\ [][NextImport]_vars

\* Two boxes with the same card, imported at the same time against a store
\* that lacks the card and answers every request.
InitTwoDecks ==
    /\ InitApp
    /\ anki_decks \in {{}, Decks}
    /\ anki_notes = <<>>
    /\ text = [d \in Decks |-> TextOne]
    /\ runs_left = MaxRuns
    /\ faults_left = 0
    /\ clicks_left = 0

SpecTwoDecks == InitTwoDecks /\ [][MainSteps \/ WorkerSteps]_vars

\* ------------------------------------------------------------------------
\* Properties
\* ------------------------------------------------------------------------

Terminal == {"complete", "error"}

\* the run's thread has ended
Ended(r) == runs[r].pc = "done"

\* the type of the last event the run emitted ("none" before the first)
LastEvent(r) ==
    IF runs[r].emitted = <<>> THEN "none" ELSE runs[r].emitted[Len(runs[r].emitted)]

\* the run issued the request and it ended as one of the outcomes
Had(r, action, outcomes) ==
    \E i \in DOMAIN runs[r].requests :
        runs[r].requests[i][1] = action /\ runs[r].requests[i][2] \in outcomes

\* C1: the events a run has emitted are progress events followed by at most
\* one terminal event, which is the last one; a run whose thread has ended
\* has emitted exactly one terminal event, whatever the store answered.
C1_EventOrder ==
    \A r \in DOMAIN runs :
        LET e == runs[r].emitted
        IN  /\ \A i \in DOMAIN e :
                  /\ e[i] \in Terminal \cup {"progress_update"}
                  /\ e[i] \in Terminal => i = Len(e)
            /\ Ended(r) <=> LastEvent(r) \in Terminal

\* C1 witness: a run that ended in Error after a request raised late in the
\* run, with its progress events before the terminal event.
C1_Witness ==
    \E r \in DOMAIN runs :
        /\ Ended(r)
        /\ Had(r, "addNotes", {"raise"})
        /\ runs[r].emitted = <<"progress_update", "progress_update", "progress_update",
                               "progress_update", "error">>

Sum(c) == c.added + c.skipped + c.failed + c.unparsable

\* the complete events waiting in the channel
CompleteMsgs ==
    {import_queue[i] : i \in {j \in DOMAIN import_queue : import_queue[j].type = "complete"}}

\* C2: in every Complete event the counts add up to the number of non-blank
\* input lines of its run, and each count is the size of its bucket.
C2_PartitionComplete ==
    \A m \in CompleteMsgs :
        /\ m.run \in DOMAIN runs
        /\ Sum(m.counts) = Len(runs[m.run].lines)
        /\ m.counts.skipped = Len(m.skipped_cards)
        /\ m.counts.failed = Len(m.failed_cards)
        /\ m.counts.unparsable = Len(m.unparsable_lines)
        /\ m.counts.added + m.counts.failed = Len(runs[m.run].notes_to_add)

\* C2 witness: a Complete event in which every one of the four counts is
\* positive.
C2_Witness ==
    \E m \in CompleteMsgs :
        /\ m.counts.added > 0 /\ m.counts.skipped > 0
        /\ m.counts.failed > 0 /\ m.counts.unparsable > 0

\* C3 (as claimed): a run in which a store request failed at the transport
\* level (anki_request returned None, or the connection broke) ends with
\* Error, never with Complete.
C3_TransportFailureIsError ==
    \A r \in DOMAIN runs :
        (Ended(r) /\ \E i \in DOMAIN runs[r].requests :
                        runs[r].requests[i][2] \in {"urlerror", "raise"})
            => LastEvent(r) = "error"

\* the deck of the run could not be confirmed to exist
DeckUnconfirmed(r) ==
    \/ Had(r, "deckNames", Outcomes \ {"ok"})
    \/ Had(r, "createDeck", Outcomes \ {"ok"})

\* C4: a run whose deck could not be confirmed classifies no line, issues
\* no request but deckNames and createDeck, and ends with Error.
C4_DeckFailFast ==
    \A r \in DOMAIN runs :
        DeckUnconfirmed(r) =>
            /\ runs[r].pc \in {"putDeckError", "putCritical", "done"}
            /\ runs[r].parsed_cards = <<>> /\ runs[r].unparsable_lines = <<>>
            /\ ~runs[r].partitioned
            /\ \A i \in DOMAIN runs[r].requests :
                   runs[r].requests[i][1] \in {"deckNames", "createDeck"}
            /\ runs[r].emitted \in {<<"progress_update">>, <<"progress_update", "error">>}
            /\ Ended(r) => LastEvent(r) = "error"

\* C4 witness: a run whose deck was absent and whose createDeck request was
\* answered with an error has ended with Error.
C4_Witness ==
    \E r \in DOMAIN runs :
        /\ Had(r, "createDeck", {"error"})
        /\ Ended(r)
        /\ LastEvent(r) = "error"

\* positions of the parsed cards of run r whose front is f
CardsOf(r, f) == {i \in DOMAIN runs[r].parsed_cards : runs[r].parsed_cards[i].front = f}

\* C10: after the partition loop, of the classified cards of one front that
\* is not in the store map the first is staged with its back and every later
\* one is skipped without a note id; staged fronts are pairwise distinct.
C10_BatchDuplicates ==
    \A r \in DOMAIN runs :
        runs[r].partitioned =>
            LET rec    == runs[r]
                staged == rec.notes_to_add
                batch  == {i \in DOMAIN rec.skipped_cards :
                              rec.skipped_cards[i].note_id = NoNote}
            IN  /\ \A i, j \in DOMAIN staged :
                      staged[i].fields.Front = staged[j].fields.Front => i = j
                /\ \A c \in DOMAIN rec.parsed_cards :
                      LET f == rec.parsed_cards[c].front
                      IN  f \notin DOMAIN rec.existing_notes_map =>
                            /\ \E i \in DOMAIN staged :
                                  /\ staged[i].fields.Front = f
                                  /\ staged[i].fields.Back =
                                        rec.parsed_cards[Min(CardsOf(r, f))].back
                            /\ Cardinality({i \in batch : rec.skipped_cards[i].front = f})
                                  = Cardinality(CardsOf(r, f)) - 1
                            /\ c # Min(CardsOf(r, f)) =>
                                  \E i \in batch :
                                      /\ rec.skipped_cards[i].front = f
                                      /\ rec.skipped_cards[i].back_new =
                                            rec.parsed_cards[c].back

\* C10 witness: a partitioned run with two cards of one front that the store
\* map does not hold, the second of them skipped without a note id.
C10_Witness ==
    \E r \in DOMAIN runs :
        /\ runs[r].partitioned
        /\ \E f \in {runs[r].parsed_cards[i].front : i \in DOMAIN runs[r].parsed_cards} :
              /\ f \notin DOMAIN runs[r].existing_notes_map
              /\ Cardinality(CardsOf(r, f)) = 2
              /\ \E i \in DOMAIN runs[r].skipped_cards :
                    /\ runs[r].skipped_cards[i].front = f
                    /\ runs[r].skipped_cards[i].note_id = NoNote

\* the runs of deck d whose terminal event the consumer has not handled
InFlight(d) == {r \in DOMAIN runs : runs[r].deck = d}

\* C7: per deck at most one run has been started without its terminal event
\* consumed, and the deck's start button is disabled exactly while there is
\* such a run.
C7_OneRunPerDeck ==
    \A d \in Decks :
        /\ Cardinality(InFlight(d)) <= 1
        /\ start_button[d] = "disabled" <=> InFlight(d) # {}

\* C7 witness: the second run of a deck is in flight after the terminal
\* event of its first run was consumed.
C7_Witness ==
    \E d \in Decks :
        /\ InFlight(d) = {2}
        /\ start_button[d] = "disabled"
        /\ runs[2].pc = "findNotes"

\* C9 (as claimed): when the runs of the two profiles, given the same card
\* that the store lacked, have both ended in Complete, one of them has added
\* the card and the other reports it as a duplicate in the store.
C9_Serializable ==
    \A r1, r2 \in DOMAIN runs :
        (/\ runs[r1].deck # runs[r2].deck
         /\ Ended(r1) /\ LastEvent(r1) = "complete"
         /\ Ended(r2) /\ LastEvent(r2) = "complete")
        => \E a, b \in {r1, r2} :
              /\ runs[a].counts = [added |-> 1, skipped |-> 0, failed |-> 0,
                                   unparsable |-> 0]
              /\ runs[b].counts = [added |-> 0, skipped |-> 1, failed |-> 0,
                                   unparsable |-> 0]
              /\ runs[b].skipped_cards[1].note_id # NoNote

\* C5 (as claimed): an item leaves the view only through an action all of
\* whose remote calls succeeded.
C5_FailedActionKeepsItem ==
    \A i \in DOMAIN items :
        items[i].removed_by \in Kinds => items[i].removed_ok

\* C6 (as claimed): no widget is ever read or changed by a worker thread.
C6_WorkersNeverTouchView == widget_thread # "worker"

\* sub occurs in s as a contiguous run
Contains(s, sub) ==
    \E k \in 0..(Len(s) - Len(sub)) :
        \A n \in 1..Len(sub) : s[k + n] = sub[n]

\* C8 (as claimed): once merge-and-reschedule has succeeded on two items of
\* one existing note, the note's back holds the new back of both.
C8_MergesPreserved ==
    \A i, j \in DOMAIN items :
        (/\ i # j
         /\ items[i].card.note_id # NoNote
         /\ items[i].card.note_id = items[j].card.note_id
         /\ items[i].removed_by = "append" /\ items[i].removed_ok
         /\ items[j].removed_by = "append" /\ items[j].removed_ok)
        => /\ Contains(anki_notes[items[i].card.note_id].back, items[i].card.back_new)
           /\ Contains(anki_notes[items[i].card.note_id].back, items[j].card.back_new)

\* the complete event of run r is waiting in the channel
CompleteOf(r) == {m \in CompleteMsgs : m.run = r}

Chars == {"(", ")", ",", "a", " ", "FW", "ZW", "J", "JC"}
CoreChars == {"(", ")", "a", "J", "FW"}
ParenChars == {"(", ")", "a"}

\* lines of up to MaxLineLen characters of any class, of up to MaxCoreLen
\* characters of the core classes, and of up to MaxParenLen parentheses and
\* letters
MaxLineLen == 4
MaxCoreLen == 6
MaxParenLen == 9

Strings(S, n) == UNION {[1..k -> S] : k \in 0..n}

Lines ==
    Strings(Chars, MaxLineLen) \cup Strings(CoreChars, MaxCoreLen)
        \cup Strings(ParenChars, MaxParenLen)

\* one line, pasted into both boxes; the store has both decks and no note
InitParse ==
    /\ InitApp
    /\ anki_decks = Decks
    /\ anki_notes = <<>>
    /\ text \in {[d \in Decks |-> <<l>>] : l \in Lines}
    /\ runs_left = 1
    /\ faults_left = 0
    /\ clicks_left = 0

\* a run up to the end of its classification loop
NextParse ==
    \/ \E d \in Decks : Launch(d)
    \/ \E r \in DOMAIN runs : W_PutChecking(r)
    \/ \E r \in DOMAIN runs, o \in Outcomes : W_DeckNames(r, o)
    \/ \E r \in DOMAIN runs : W_PutParsing(r)

SpecParse == InitParse /\ [][NextParse]_vars

\* the classification loop of run r is over
Classified(r) == runs[r].pc = "put50"

\* run r is of the profile and its loop is over
ClassifiedBy(r, deck) == runs[r].deck = deck /\ Classified(r)

\* s has no character that is not whitespace
Blank(s) == \A i \in DOMAIN s : s[i] \in {" ", "FW"}

\* C13: whatever line a run classified, the classifier of its profile
\* returned either no card or a front and a back neither of which is blank,
\* and the parsed cards of the run have no blank side.
C13_NoBlankSide ==
    \A r \in DOMAIN runs :
        Classified(r) =>
            /\ \A k \in DOMAIN runs[r].lines :
                  LET c == parser_func(runs[r].deck, runs[r].lines[k])
                  IN  c # NoCard => ~Blank(c.front) /\ ~Blank(c.back)
            /\ \A i \in DOMAIN runs[r].parsed_cards :
                  /\ ~Blank(runs[r].parsed_cards[i].front)
                  /\ ~Blank(runs[r].parsed_cards[i].back)

\* C13 witness: a card whose sides had whitespace around them in the line.
C13_Witness ==
    \E r \in DOMAIN runs :
        /\ Classified(r)
        /\ runs[r].lines = << <<"J", "FW", " ", "a">> >>
        /\ runs[r].parsed_cards # <<>>
        /\ runs[r].parsed_cards[1].front = <<"J">>
        /\ runs[r].parsed_cards[1].back = <<"a">>

\* the one line of run r as the classifier sees it after its own clean-up
\* (zero-width spaces removed, then trimmed)
CleanLine(r) == Strip(RemoveZW(runs[r].lines[1]))

\* the parsed cards of a run whose one line gave this front, back and tags
OneCard(r, front, back, tags) ==
    /\ Len(runs[r].parsed_cards) = 1
    /\ runs[r].parsed_cards[1].front = front
    /\ runs[r].parsed_cards[1].back = back
    /\ runs[r].parsed_cards[1].tags = tags
    /\ runs[r].unparsable_lines = <<>>

\* every character of s is of the Japanese class
AllJp(s) == \A i \in DOMAIN s : s[i] \in {"J", "JC"}

\* C14 (as claimed): a Passive line of n >= 2 Japanese-class characters and
\* nothing else is classified with front = its first n-1 characters, back =
\* its last character, and no tag.
C14_PureJapaneseRun ==
    \A r \in DOMAIN runs :
        (/\ ClassifiedBy(r, PASSIVE_DECK_NAME)
         /\ Len(runs[r].lines[1]) >= 2
         /\ AllJp(runs[r].lines[1]))
        => LET line == runs[r].lines[1]
           IN  OneCard(r, SubSeq(line, 1, Len(line) - 1),
                       <<line[Len(line)]>>, <<>>)

\* positions of the characters of s that are in the set C
Positions(s, C) == {i \in DOMAIN s : s[i] \in C}

\* the line starts with a parenthesized span (something between "(" and its
\* first ")") that further text follows
StartsWithLemma(line) ==
    /\ line # <<>> /\ line[1] = "("
    /\ Positions(line, {")"}) # {}
    /\ Min(Positions(line, {")"})) >= 3
    /\ Min(Positions(line, {")"})) < Len(line)

\* C15: a Passive line that starts with a parenthesized span followed by
\* further text gives one card: front = the line through its first closing
\* parenthesis, back = the rest trimmed, tag Kanji, whatever the rest holds.
C15_BracketedLemmaFirst ==
    \A r \in DOMAIN runs :
        (ClassifiedBy(r, PASSIVE_DECK_NAME) /\ StartsWithLemma(CleanLine(r)))
        => LET line == CleanLine(r)
               q    == Min(Positions(line, {")"}))
           IN  OneCard(r, SubSeq(line, 1, q),
                       Strip(SubSeq(line, q + 1, Len(line))),
                       <<PASSIVE_KANJI_TAG>>)

\* C15 witness: the rest holds a parenthesis and a full-width space.
C15_Witness ==
    \E r \in DOMAIN runs :
        /\ ClassifiedBy(r, PASSIVE_DECK_NAME)
        /\ runs[r].lines[1] = <<"(", "a", ")", "(", "FW", "a">>
        /\ OneCard(r, <<"(", "a", ")">>, <<"(", "FW", "a">>, <<PASSIVE_KANJI_TAG>>)

\* the length of the maximal leading run of Japanese-class characters
JpLead(s) ==
    Max({k \in 0..Len(s) : \A i \in 1..k : s[i] \in {"J", "JC"}})

\* the back the script-boundary rule computes from the remainder rem
RuleBack(rem) ==
    LET commas == Positions(rem, {",", "JC"})
        jps    == Positions(rem, {"J", "JC"})
    IN  IF commas # {} /\ \E j \in jps : j > Min(commas)
        THEN rem
        ELSE Strip(SubSeq(rem, 1, IF jps = {} THEN Len(rem) ELSE Min(jps) - 1))

\* C16: a card the Passive script-boundary rule produced (the line starts
\* with a Japanese-class character and has no full-width space) has as
\* front the maximal leading Japanese run, as back the rule's back of the
\* trimmed remainder, and no tag.
C16_ScriptBoundary ==
    \A r \in DOMAIN runs :
        (/\ ClassifiedBy(r, PASSIVE_DECK_NAME)
         /\ runs[r].parsed_cards # <<>>
         /\ CleanLine(r)[1] \in {"J", "JC"}
         /\ Positions(CleanLine(r), {"FW"}) = {})
        => LET line == CleanLine(r)
               k    == JpLead(line)
           IN  OneCard(r, SubSeq(line, 1, k),
                       RuleBack(Strip(SubSeq(line, k + 1, Len(line)))), <<>>)

\* C16 witness: Japanese text after the first comma keeps the whole
\* remainder as the back.
C16_Witness ==
    \E r \in DOMAIN runs :
        /\ ClassifiedBy(r, PASSIVE_DECK_NAME)
        /\ runs[r].lines[1] = <<"J", "a", "JC", "J">>
        /\ OneCard(r, <<"J">>, <<"a", "JC", "J">>, <<>>)

\* the bracketed-lemma rule fired on the line of run r: only it gives the
\* Kanji tag
LemmaRuleFired(r) ==
    runs[r].parsed_cards # <<>> /\ runs[r].parsed_cards[1].tags = <<PASSIVE_KANJI_TAG>>

\* C17: a Passive line on which the bracketed-lemma rule did not fire and
\* that holds a full-width space gives one card, split at the first
\* full-width space, both sides trimmed, no tag.
C17_FullWidthSplit ==
    \A r \in DOMAIN runs :
        (/\ ClassifiedBy(r, PASSIVE_DECK_NAME)
         /\ ~LemmaRuleFired(r)
         /\ Positions(CleanLine(r), {"FW"}) # {})
        => LET line == CleanLine(r)
               f    == Min(Positions(line, {"FW"}))
           IN  OneCard(r, Strip(SubSeq(line, 1, f - 1)),
                       Strip(SubSeq(line, f + 1, Len(line))), <<>>)

\* C17 witness: a line the script-boundary rule would have cut at its
\* second Japanese run is split at the full-width space instead.
C17_Witness ==
    \E r \in DOMAIN runs :
        /\ ClassifiedBy(r, PASSIVE_DECK_NAME)
        /\ runs[r].lines[1] = <<"J", "FW", "a", "J">>
        /\ OneCard(r, <<"J">>, <<"a", "J">>, <<>>)

\* nesting depth after the first i characters of s
Depth(s, i) ==
    Cardinality({j \in 1..i : s[j] = "("}) - Cardinality({j \in 1..i : s[j] = ")"})

\* every parenthesis of s has its partner and no pair is empty
Balanced(s) ==
    /\ \A i \in DOMAIN s : Depth(s, i) >= 0
    /\ Depth(s, Len(s)) = 0
    /\ \A i \in 1..(Len(s) - 1) : ~(s[i] = "(" /\ s[i + 1] = ")")

\* C18 (as claimed): an Active line that starts with a parenthesized span
\* with one level of nested parentheses, followed by text, gives one card:
\* front = that outer span, back = the text after it trimmed, no tag.
C18_NestedSpanFront ==
    \A r \in DOMAIN runs :
        LET line == CleanLine(r)
            ends == {i \in DOMAIN line : Depth(line, i) = 0}
        IN  (/\ ClassifiedBy(r, ACTIVE_DECK_NAME)
             /\ line # <<>> /\ line[1] = "("
             /\ Balanced(line)
             /\ Min(ends) < Len(line)
             /\ Max({Depth(line, i) : i \in 1..Min(ends)}) = 2)
            => OneCard(r, SubSeq(line, 1, Min(ends)),
                       Strip(SubSeq(line, Min(ends) + 1, Len(line))), <<>>)

\* C19 (as claimed): an Active line that does not start with a parenthesis
\* and ends with a parenthesized span with text before it gives one card:
\* front = that trailing span, back = the text before it trimmed, no tag.
C19_TrailingSpanFront ==
    \A r \in DOMAIN runs :
        LET line  == CleanLine(r)
            opens == {i \in DOMAIN line : line[i] = "(" /\ Depth(line, i - 1) = 0}
        IN  (/\ ClassifiedBy(r, ACTIVE_DECK_NAME)
             /\ line # <<>> /\ line[1] # "(" /\ line[Len(line)] = ")"
             /\ Balanced(line))
            => OneCard(r, SubSeq(line, Max(opens), Len(line)),
                       Strip(SubSeq(line, 1, Max(opens) - 1)), <<>>)

\* the reschedule requests of reset_cards
RescheduleRequests == {"findCards", "unsuspend", "forgetCards"}

\* C20: in every step in which a merge-and-reschedule task issues a
\* request: the updateNoteFields request is its first one and, when it
\* succeeds, leaves as the note's back the item's existing back, the
\* separator and the new back; a reschedule request comes only after the
\* updateNoteFields request and is for the cards of the item's note.
C20_MergeThenReschedule ==
    [][\A t \in DOMAIN tasks :
          (/\ tasks[t].kind = "append"
           /\ t \in DOMAIN tasks'
           /\ Len(tasks'[t].requests) = Len(tasks[t].requests) + 1)
          => LET req  == tasks'[t].requests[Len(tasks'[t].requests)]
                 card == items[tasks[t].item].card
             IN  /\ req[1] = "updateNoteFields" =>
                       /\ tasks[t].requests = <<>>
                       /\ req[2] = "ok" =>
                             anki_notes'[card.note_id].back =
                                 card.back_old \o <<"<br><hr>">> \o card.back_new
                 /\ req[1] \in RescheduleRequests =>
                       /\ tasks[t].requests # <<>>
                       /\ tasks[t].requests[1][1] = "updateNoteFields"
                 /\ req[1] \in {"unsuspend", "forgetCards"} =>
                       tasks[t].card_ids = <<CardOf(card.note_id)>>
                 /\ req[1] \in {"updateNoteFields"} \cup RescheduleRequests
      ]_vars

\* C20 witness: a merge-and-reschedule task has written the merged back and
\* then issued all three reschedule requests; the note is new again.
C20_Witness ==
    \E t \in DOMAIN tasks :
        /\ tasks[t].kind = "append"
        /\ tasks[t].requests = <<<<"updateNoteFields", "ok">>, <<"findCards", "ok">>,
                                 <<"unsuspend", "ok">>, <<"forgetCards", "ok">>>>
        /\ LET card == items[tasks[t].item].card
           IN  /\ anki_notes[card.note_id].back =
                     OldBack \o <<"<br><hr>">> \o card.back_new
               /\ anki_notes[card.note_id].sched = "new"

\* the last request a task has issued
LastRequest(task) == task.requests[Len(task.requests)]

\* the notes whose record differs between two stores
ChangedNotes(before, after) ==
    {n \in DOMAIN before : n \notin DOMAIN after \/ after[n] # before[n]}
        \cup (DOMAIN after \ DOMAIN before)

\* C21: in every step in which a resolution task issues a request of
\* reset_cards: the lookup that is answered returns the cards of exactly
\* the item's note and is followed by the unsuspend request; the unsuspend
\* request comes directly after an answered lookup and the forget request
\* directly after the unsuspend request, both with the card ids the lookup
\* returned, and the store changes no note but those of these cards; after
\* an answered forget request these notes are new.
C21_RescheduleOrder ==
    [][\A t \in DOMAIN tasks :
          (/\ t \in DOMAIN tasks'
           /\ Len(tasks'[t].requests) = Len(tasks[t].requests) + 1
           /\ LastRequest(tasks'[t])[1] \in RescheduleRequests)
          => LET req == LastRequest(tasks'[t])
                 nid == items[tasks[t].item].card.note_id
                 own == {NoteOfCard(tasks[t].card_ids[i]) : i \in DOMAIN tasks[t].card_ids}
             IN  /\ req[1] = "findCards" =>
                       /\ \A i \in DOMAIN tasks[t].requests :
                             tasks[t].requests[i][1] \notin RescheduleRequests
                       /\ anki_notes' = anki_notes
                       /\ req[2] = "ok" => /\ tasks'[t].card_ids = <<CardOf(nid)>>
                                           /\ tasks'[t].pc = "unsuspend"
                 /\ req[1] = "unsuspend" =>
                       /\ tasks[t].requests # <<>>
                       /\ LastRequest(tasks[t]) = <<"findCards", "ok">>
                       /\ tasks[t].card_ids = <<CardOf(nid)>>
                       /\ tasks'[t].card_ids = tasks[t].card_ids
                       /\ ChangedNotes(anki_notes, anki_notes') \subseteq own
                       /\ req[2] # "raise" => tasks'[t].pc = "forgetCards"
                 /\ req[1] = "forgetCards" =>
                       /\ tasks[t].requests # <<>>
                       /\ LastRequest(tasks[t])[1] = "unsuspend"
                       /\ tasks[t].card_ids = <<CardOf(nid)>>
                       /\ ChangedNotes(anki_notes, anki_notes') \subseteq own
                       /\ req[2] = "ok" =>
                             \A n \in own : anki_notes'[n].sched = "new"
      ]_vars

\* C21 witness: a Just Reset task has issued the lookup, the unsuspend and
\* the forget request, all answered, and its suspended note is new.
C21_Witness ==
    \E t \in DOMAIN tasks :
        /\ tasks[t].kind = "reset"
        /\ tasks[t].requests = <<<<"findCards", "ok">>, <<"unsuspend", "ok">>,
                                 <<"forgetCards", "ok">>>>
        /\ tasks[t].card_ids = <<CardOf(1)>>
        /\ anki_notes[1].back = OldBack
        /\ anki_notes[1].sched = "new"

\* the frames of the cards skipped as duplicates within their batch
BatchDuplicateItems == {i \in DOMAIN items : items[i].card.note_id = NoNote}

\* C22: the frame of a card skipped as a duplicate within its batch has no
\* resolution button that can be pressed, no resolution thread acts for it,
\* no removal message names it, and it leaves the view only with its window.
C22_BatchDuplicateHasNoAction ==
    \A i \in BatchDuplicateItems :
        /\ \A k \in Kinds : ~items[i].buttons[k]
        /\ \A t \in DOMAIN tasks : tasks[t].item # i
        /\ \A m \in DOMAIN import_queue :
              import_queue[m].type = "destroy_widget" => import_queue[m].widget # i
        /\ items[i].removed_by \in {"none", "close"}

\* C22 witness: the result window shows a duplicate within the batch next to
\* a duplicate in the store, and both clicks went to the latter kind.
C22_Witness ==
    /\ clicks_left = 0
    /\ \E i \in BatchDuplicateItems : items[i].exists
    /\ \E i \in DOMAIN items : items[i].removed_by \in Kinds

\* ------------------------------------------------------------------------
\* get_info_for_existing_notes called on its own
\* ------------------------------------------------------------------------

\* def get_info_for_existing_notes(deck_name, front_texts), line 41
get_info_for_existing_notes_params == <<"deck_name", "front_texts">>

\* fronts of the calls: the front of ExistingNote and another one
FrontA == <<"(", "a", ")">>
FrontJ == <<"(", "J", ")">>

\* the lists of fronts of the calls
MaxFronts == 2
FrontLists == Strings({FrontA, FrontJ}, MaxFronts)

\* a parsed card of a front
CardOfFront(f) == [front |-> f, back |-> <<"a">>, tags |-> <<>>, line |-> f \o <<"a">>]

\* the positional arguments of a call: the list of fronts alone, as in
\* tests/test_anki_utils.py line 31, or the deck name and the list, as in
\* main_gui.py line 153
CallArgs(deck, fronts) == {<<fronts>>, <<deck, fronts>>}

\* a second note of the front of ExistingNote, in the Passive deck
PassiveNote == [ExistingNote EXCEPT !.deck = PASSIVE_DECK_NAME, !.back = <<"a">>]

\* the call: Python binds the positional arguments to the parameters and
\* raises TypeError when one is missing; lines 46-47 return {} for no fronts
CallLookup(deck, fronts, args) ==
    /\ runs_left > 0
    /\ runs_left' = runs_left - 1
    /\ nextRun' = nextRun + 1
    /\ LET rec == [NewRun(deck, <<>>) EXCEPT
                      !.parsed_cards = [i \in DOMAIN fronts |-> CardOfFront(fronts[i])]]
           called == ("args" :> args) @@ rec
       IN  runs' = ((nextRun + 1) :>
              IF Len(args) # Len(get_info_for_existing_notes_params)
              THEN [called EXCEPT !.pc = "TypeError"]
              ELSE IF fronts = <<>> THEN Partitioned(called, <<>>)
              ELSE [called EXCEPT !.pc = "findNotes"]) @@ runs
    /\ UNCHANGED <<text, start_button, progress_bar, progress_label, import_queue,
                   anki_decks, anki_notes, items, windows, grab, tasks,
                   reset_timers, widget_thread, faults_left, clicks_left>>

InitLookup ==
    /\ InitApp
    /\ anki_decks = Decks
    /\ anki_notes \in {<<>>, <<ExistingNote>>, <<ExistingNote, PassiveNote>>}
    /\ text = [d \in Decks |-> TextEmpty]
    /\ runs_left = MaxRuns
    /\ faults_left = MaxFaults
    /\ clicks_left = 0

NextLookup ==
    \/ \E d \in Decks, fronts \in FrontLists :
          \E args \in CallArgs(d, fronts) : CallLookup(d, fronts, args)
    \/ \E r \in DOMAIN runs, o \in Outcomes : W_FindNotes(r, o)
    \/ \E r \in DOMAIN runs, o \in Outcomes : W_NotesInfo(r, o)
    \/ \E r \in DOMAIN runs, o \in Outcomes : W_CardsInfo(r, o)

SpecLookup == InitLookup /\ [][NextLookup]_vars

\* the call of get_info_for_existing_notes of run record r is over
LookupEnded(r) == runs[r].pc \in {"put65", "TypeError", "putCritical"}

\* some front of the call is the front of a note of the store
Matched(r) ==
    \E i \in DOMAIN runs[r].parsed_cards, n \in DOMAIN anki_notes :
        anki_notes[n].front = runs[r].parsed_cards[i].front

\* the call issued findNotes, notesInfo and cardsInfo, in this order, and
\* returned a map from the front of every matched note to an info that
\* carries the deck of the note's first card
ThreeRequestsAndMap(r) ==
    /\ runs[r].pc = "put65"
    /\ runs[r].requests = <<<<"findNotes", "ok">>, <<"notesInfo", "ok">>,
                            <<"cardsInfo", "ok">>>>
    /\ DOMAIN runs[r].existing_notes_map =
          {anki_notes[n].front : n \in DOMAIN anki_notes}
              \cap {runs[r].parsed_cards[i].front : i \in DOMAIN runs[r].parsed_cards}
    /\ \A f \in DOMAIN runs[r].existing_notes_map :
          LET info == runs[r].existing_notes_map[f]
          IN  /\ info.Front = f
              /\ anki_notes[info.noteId].front = f
              /\ info.deckName = anki_notes[NoteOfCard(info.cards[1])].deck

\* C23 (as claimed, violated): a call with the list of fronts as its only
\* argument, against a store that holds a note of one of the fronts and
\* answers every request, issues the three requests and returns the map.
C23_LookupWithFronts ==
    \A r \in DOMAIN runs :
        (/\ LookupEnded(r)
         /\ Len(runs[r].args) = 1
         /\ Matched(r)
         /\ faults_left = MaxFaults)
        => ThreeRequestsAndMap(r)

\* the requests of ensure_deck_exists
DeckRequests == {"deckNames", "createDeck"}

\* what ensure_deck_exists did when it took the run to pc: it returned True
\* (the run goes on to parse), returned False (the run reports the deck
\* error), or an exception left it
ReturnedTrue(pc)  == pc = "put15"
ReturnedFalse(pc) == pc = "putDeckError"

\* C24 (as claimed, violated): in every step in which a run issues a request
\* of ensure_deck_exists: deckNames is its first request; createDeck follows
\* exactly when the deck names were fetched and lack the deck; the function
\* returns True when the deck is among the names or the creation is
\* answered without error, and False when the deck names are not fetched or
\* the creation fails.
C24_EnsureDeckExists ==
    [][\A r \in DOMAIN runs :
          (/\ r \in DOMAIN runs'
           /\ Len(runs'[r].requests) = Len(runs[r].requests) + 1
           /\ LastRequest(runs'[r])[1] \in DeckRequests)
          => LET req  == LastRequest(runs'[r])
                 deck == runs[r].deck
                 pc   == runs'[r].pc
             IN  /\ req[1] = "deckNames" =>
                       /\ runs[r].requests = <<>>
                       /\ (req[2] = "ok" /\ deck \in anki_decks) => ReturnedTrue(pc)
                       /\ (req[2] = "ok" /\ deck \notin anki_decks) => pc = "createDeck"
                       /\ req[2] # "ok" => ReturnedFalse(pc)
                 /\ req[1] = "createDeck" =>
                       /\ runs[r].requests = <<<<"deckNames", "ok">>>>
                       /\ deck \notin anki_decks
                       /\ req[2] = "ok" => ReturnedTrue(pc) /\ deck \in anki_decks'
                       /\ req[2] # "ok" => ReturnedFalse(pc)
      ]_vars

\* the k-th smallest element of a set of numbers
Kth(S, k) == CHOOSE i \in S : Cardinality({j \in S : j <= i}) = k

\* C25: when the addNotes request of a run returned a result list, the list
\* has one position per staged record; the Complete event of the run counts
\* the positions that are not null as added and holds, in order, one failed
\* card per null position i, with the front and back of staged record i and
\* the input line that record was classified from; added + failed is the
\* number of staged records, and the run ends in Complete.
C25_PositionalResult ==
    \A r \in DOMAIN runs :
        Had(r, "addNotes", {"ok"}) =>
            LET res   == runs[r].add_results.result
                nulls == {i \in DOMAIN res : res[i] = NoNote}
            IN  /\ DOMAIN res = DOMAIN runs[r].notes_to_add
                /\ Ended(r) => LastEvent(r) = "complete"
                /\ \A m \in CompleteOf(r) :
                      /\ m.counts.added = Cardinality(DOMAIN res \ nulls)
                      /\ m.counts.failed = Cardinality(nulls)
                      /\ m.counts.added + m.counts.failed = Len(runs[r].notes_to_add)
                      /\ DOMAIN m.failed_cards = 1..Cardinality(nulls)
                      /\ \A k \in DOMAIN m.failed_cards :
                            LET i == Kth(nulls, k)
                                f == m.failed_cards[k]
                            IN  /\ f.front = runs[r].notes_to_add[i].fields.Front
                                /\ f.back = runs[r].notes_to_add[i].fields.Back
                                /\ f.line = runs[r].source_lines[i]
                                /\ \E n \in DOMAIN runs[r].lines :
                                      /\ f.line = Strip(runs[r].lines[n])
                                      /\ parser_func(runs[r].deck, runs[r].lines[n]).front = f.front
                                      /\ parser_func(runs[r].deck, runs[r].lines[n]).back = f.back

\* C25 witness: the store rejected the first of two staged records and took
\* the second, and the run has put its Complete event.
C25_Witness ==
    \E r \in DOMAIN runs :
        /\ Had(r, "addNotes", {"ok"})
        /\ Len(runs[r].notes_to_add) = 2
        /\ runs[r].add_results.result[1] = NoNote
        /\ runs[r].add_results.result[2] # NoNote
        /\ \E m \in CompleteOf(r) : m.counts.added = 1 /\ m.counts.failed = 1

\* the number of Progress events a run has put before a request of a stage:
\* 1 the deck check, 3 the duplicate lookup, 4 the bulk add (2 is the
\* classification, which issues no request)
StageOf(action) ==
    CASE action \in DeckRequests -> 1
      [] action \in {"findNotes", "notesInfo", "cardsInfo"} -> 3
      [] action = "addNotes" -> 4

\* C26: in every step of a run: a Progress event it puts has a greater value
\* than the run's Progress event before it (the values are 5, 15, 50, 65, 95
\* in this order); the lines are classified with the second Progress event
\* and at no other time; a request of the deck check is issued after the
\* first, of the duplicate lookup after the third and of the bulk add after
\* the fourth Progress event, with no terminal event before it.
C26_ProgressPerStage ==
    [][\A r \in DOMAIN runs :
          r \in DOMAIN runs' =>
             LET e  == runs[r].emitted
                 e2 == runs'[r].emitted
                 values == <<5, 15, 50, 65, 95>>
             IN  /\ (Len(e2) = Len(e) + 1 /\ e2[Len(e2)] = "progress_update") =>
                       LET msg == import_queue'[Len(import_queue')]
                       IN  /\ msg.type = "progress_update" /\ msg.run = r
                           /\ Len(e2) \in DOMAIN values
                           /\ msg.value = values[Len(e2)]
                           /\ Len(e2) > 1 => msg.value > values[Len(e)]
                 /\ (\/ runs'[r].parsed_cards # runs[r].parsed_cards
                     \/ runs'[r].unparsable_lines # runs[r].unparsable_lines) =>
                       Len(e) = 1 /\ Len(e2) = 2
                 /\ Len(runs'[r].requests) = Len(runs[r].requests) + 1 =>
                       /\ Len(e) = StageOf(LastRequest(runs'[r])[1])
                       /\ \A i \in DOMAIN e : e[i] = "progress_update"
                       /\ e2 = e
      ]_vars

\* C26 witness: a run went through the deck check, the classification, an
\* answered duplicate lookup and an answered bulk add, and ended in Complete
\* after its five Progress events.
C26_Witness ==
    \E r \in DOMAIN runs :
        /\ Had(r, "deckNames", {"ok"})
        /\ Had(r, "cardsInfo", {"ok"})
        /\ Had(r, "addNotes", {"ok"})
        /\ runs[r].emitted = <<"progress_update", "progress_update", "progress_update",
                               "progress_update", "progress_update", "complete">>

\* ------------------------------------------------------------------------
\* Two producers at a time: imports of both boxes and a resolution action
\* ------------------------------------------------------------------------

\* Both boxes hold the card of a note of the store, the store answers every
\* request, each box is imported once, and one button of a result window is
\* pressed while the other deck's run may still be under way.
InitShared ==
    /\ InitApp
    /\ anki_decks = Decks
    /\ anki_notes = <<ExistingNote>>
    /\ text = [d \in Decks |-> TextOne]
    /\ runs_left = Cardinality(Decks)
    /\ faults_left = 0
    /\ clicks_left = 1

NextShared ==
    \/ MainSteps
    \/ \E r \in DOMAIN runs : W_PutChecking(r)
    \/ \E r \in DOMAIN runs : W_DeckNames(r, "ok")
    \/ \E r \in DOMAIN runs : W_PutParsing(r)
    \/ \E r \in DOMAIN runs : W_PutCheckingDuplicates(r)
    \/ \E r \in DOMAIN runs : W_FindNotes(r, "ok")
    \/ \E r \in DOMAIN runs : W_NotesInfo(r, "ok")
    \/ \E r \in DOMAIN runs : W_CardsInfo(r, "ok")
    \/ \E r \in DOMAIN runs : W_PutAdding(r)
    \/ \E r \in DOMAIN runs : W_PutFinalizing(r)
    \/ \E r \in DOMAIN runs : W_PutComplete(r)
    \/ \E i \in DOMAIN items, k \in Kinds : Click(i, k)
    \/ \E t \in DOMAIN tasks : T_UpdateNoteFields(t, "ok")
    \/ \E t \in DOMAIN tasks : T_GuiEditNote(t, "ok")
    \/ \E t \in DOMAIN tasks : T_FindCards(t, "ok")
    \/ \E t \in DOMAIN tasks : T_Unsuspend(t, "ok")
    \/ \E t \in DOMAIN tasks : T_ForgetCards(t, "ok")
    \/ \E t \in DOMAIN tasks : T_PutDestroy(t)

SpecShared == InitShared /\ [][NextShared]_vars

\* the widgets of the pane of deck d, and its pending reset
Pane(d) == <<start_button[d], progress_bar[d], progress_label[d], reset_timers[d]>>

Unparsable(deck, line) ==
    parser_func(deck, line).front = <<>> \/ parser_func(deck, line).back = <<>>

\* the run's deck is confirmed and none of its lines gives a card
AllUnparsable(r) ==
    /\ Len(runs[r].emitted) >= 2
    /\ runs[r].emitted[2] = "progress_update"
    /\ \A k \in DOMAIN runs[r].lines : Unparsable(runs[r].deck, runs[r].lines[k])

\* C28: a run whose deck is confirmed and none of whose lines gives a card
\* issues no request after the deck check, does not end in Error, and its Complete event counts every input line as
\* unparsable, lists these lines, and has 0 added, skipped and failed.
C28_AllUnparsableCompletes ==
    \A r \in DOMAIN runs :
        AllUnparsable(r) =>
            /\ \A i \in DOMAIN runs[r].requests : runs[r].requests[i][1] \in DeckRequests
            /\ runs[r].pc \in {"put50", "put65", "put95", "putComplete", "done"}
            /\ Ended(r) => LastEvent(r) = "complete" /\ CompleteOf(r) # {}
            /\ \A m \in CompleteOf(r) :
                  /\ m.counts = [added |-> 0, skipped |-> 0, failed |-> 0,
                                 unparsable |-> Len(runs[r].lines)]
                  /\ m.unparsable_lines = runs[r].lines
                  /\ m.skipped_cards = <<>> /\ m.failed_cards = <<>>

\* C28 witness: a run of two lines, neither of which gives a card, has put
\* its Complete event with unparsable = 2.
C28_Witness ==
    \E r \in DOMAIN runs :
        /\ AllUnparsable(r)
        /\ runs[r].lines = <<LineX, LineY>>
        /\ \E m \in CompleteOf(r) : m.counts.unparsable = 2

\* the line is one parenthesized span and nothing else: balanced, and closed
\* only by its last character
LoneSpan(line) ==
    /\ Len(line) >= 3
    /\ line[1] = "("
    /\ Balanced(line)
    /\ \A i \in 1..(Len(line) - 1) : Depth(line, i) > 0

\* the lines the claim lists as matching no rule of the Passive profile
\* (a line with a full-width space matches the full-width-space rule)
PassiveNoMatch(line) ==
    /\ \A i \in DOMAIN line : line[i] # "FW"
    /\ \/ line = <<>>
       \/ line # <<>> /\ ~IsJp(line[1]) /\ line[1] # "("
       \/ Len(line) = 1 /\ IsJp(line[1])
       \/ LoneSpan(line)

\* the lines the claim lists as matching no rule of the Active profile
ActiveNoMatch(line) ==
    \/ line = <<>>
    \/ line # <<>> /\ line[1] # "(" /\ line[Len(line)] # ")"
    \/ LoneSpan(line)

\* C29 (as claimed, violated): whatever line a run classified, the
\* classifier of its profile returned either a front and a back or nothing
\* at all, and for a line that is blank once cleaned or is one of the
\* no-match lines listed for the profile it returned nothing: no front, no
\* back, no tag, and the run has no card for the line.
C29_AllOrNothing ==
    \A r \in DOMAIN runs :
        Classified(r) =>
            LET line == CleanLine(r)
                res  == parser_func(runs[r].deck, runs[r].lines[1])
            IN  /\ (res.front = <<>> \/ res.back = <<>>) => res = NoCard
                /\ (IF runs[r].deck = PASSIVE_DECK_NAME
                    THEN PassiveNoMatch(line) ELSE ActiveNoMatch(line))
                   => /\ res = NoCard
                      /\ runs[r].parsed_cards = <<>>
                      /\ runs[r].unparsable_lines = runs[r].lines

\* ------------------------------------------------------------------------
\* The classifiers on a line and on the same line with whitespace around it
\* ------------------------------------------------------------------------

\* length of the lines, and of the whitespace put before and after them
MaxPaddedLen == 3
MaxPad == 1

\* runs of whitespace: ASCII and full-width spaces
Pads == Strings({" ", "FW"}, MaxPad)

\* a line, the line with whitespace before and after it, and the line again,
\* pasted into both boxes; the store has both decks and no note
InitPad ==
    /\ InitApp
    /\ anki_decks = Decks
    /\ anki_notes = <<>>
    /\ text \in {[d \in Decks |-> <<l, before \o l \o after, l>>] :
                    l \in Strings(Chars, MaxPaddedLen), before \in Pads, after \in Pads}
    /\ runs_left = 1
    /\ faults_left = 0
    /\ clicks_left = 0

SpecPad == InitPad /\ [][NextParse]_vars

Issued(r, action) ==
    Cardinality({i \in DOMAIN runs[r].requests : runs[r].requests[i][1] = action})

\* the fronts of the cards run r classified
AllFronts(r) == {runs[r].parsed_cards[i].front : i \in DOMAIN runs[r].parsed_cards}

\* the position in the parsed cards of the first card of the front
FirstCard(r, front) ==
    Min({k \in DOMAIN runs[r].parsed_cards : runs[r].parsed_cards[k].front = front})

\* C31: a run issues findNotes at most once and addNotes at most once, however
\* many cards it has; the answered findNotes returned the notes of every
\* front of the run; addNotes is issued only for a non-empty list of staged
\* records, and the staged records are distinct fronts in the order of their
\* first cards in the input.
C31_OneLookupOneAdd ==
    \A r \in DOMAIN runs :
        /\ Issued(r, "findNotes") <= 1
        /\ Issued(r, "addNotes") <= 1
        /\ runs[r].pc \in {"notesInfo", "cardsInfo"} =>
              Range(runs[r].existing_note_ids) =
                  {n \in DOMAIN anki_notes : anki_notes[n].front \in AllFronts(r)}
        /\ Issued(r, "addNotes") = 1 => runs[r].notes_to_add # <<>>
        /\ (runs[r].partitioned /\ runs[r].notes_to_add = <<>>) => Issued(r, "addNotes") = 0
        /\ \A i \in DOMAIN runs[r].notes_to_add :
              /\ runs[r].notes_to_add[i].fields.Front \in AllFronts(r)
              /\ \A j \in DOMAIN runs[r].notes_to_add :
                    i < j => FirstCard(r, runs[r].notes_to_add[i].fields.Front)
                                 < FirstCard(r, runs[r].notes_to_add[j].fields.Front)

\* C31 witness: a run of four cards issued one findNotes and one addNotes
\* request, the latter with two staged records, and has put Complete.
C31_Witness ==
    \E r \in DOMAIN runs :
        /\ Len(runs[r].parsed_cards) = 4
        /\ Issued(r, "findNotes") = 1 /\ Had(r, "findNotes", {"ok"})
        /\ Issued(r, "addNotes") = 1 /\ Had(r, "addNotes", {"ok"})
        /\ Len(runs[r].notes_to_add) = 2
        /\ CompleteOf(r) # {}

TasksOf(i) == {t \in DOMAIN tasks : tasks[t].item = i}

Fields(notes) ==
    [n \in DOMAIN notes |-> <<notes[n].front, notes[n].back, notes[n].deck>>]

\* C34: in every step in which the thread of Just Reset or of Modify & Reset
\* issues a request: the request is not updateNoteFields and the fields of
\* every note stay as they are; Just Reset issues requests of the reschedule
\* only; the first request of Modify & Reset, and no later one, is
\* guiEditNote, it changes nothing in the store, and once it returns the
\* lookup of the reschedule is next.
C34_ResetAndModifyFrame ==
    [][\A t \in DOMAIN tasks :
          (/\ tasks[t].kind \in {"reset", "modify"}
           /\ t \in DOMAIN tasks'
           /\ Len(tasks'[t].requests) = Len(tasks[t].requests) + 1)
          => LET req == LastRequest(tasks'[t])
             IN  /\ req[1] # "updateNoteFields"
                 /\ Fields(anki_notes') = Fields(anki_notes)
                 /\ tasks[t].kind = "reset" => req[1] \in RescheduleRequests
                 /\ tasks[t].kind = "modify" =>
                       /\ req[1] \in {"guiEditNote"} \cup RescheduleRequests
                       /\ req[1] = "guiEditNote" <=> tasks[t].requests = <<>>
                       /\ req[1] = "guiEditNote" =>
                             /\ anki_notes' = anki_notes
                             /\ req[2] # "raise" => tasks'[t].pc = "findCards"
      ]_vars

\* C34 witness: the thread of Modify & Reset has asked for the editor and
\* then rescheduled; the note has the back it had and is new.
C34_Witness ==
    \E t \in DOMAIN tasks :
        /\ tasks[t].kind = "modify"
        /\ tasks[t].requests = <<<<"guiEditNote", "ok">>, <<"findCards", "ok">>,
                                 <<"unsuspend", "ok">>, <<"forgetCards", "ok">>>>
        /\ anki_notes[1].back = OldBack
        /\ anki_notes[1].sched = "new"

\* ------------------------------------------------------------------------
\* The import pipeline under fair scheduling
\* ------------------------------------------------------------------------

\* Two runs, with one store request that may fail: either both boxes hold
\* a line that is no card and their runs go on at the same time, or one box
\* holds a card the store has and is imported twice.
LiveTexts ==
    {[d \in Decks |-> TextBad],
     [d \in Decks |-> IF d = PASSIVE_DECK_NAME THEN TextOne ELSE TextEmpty]}

InitLive ==
    /\ InitApp
    /\ anki_decks = {}
    /\ anki_notes = <<ExistingNote>>
    /\ text \in LiveTexts
    /\ runs_left = Cardinality(Decks)
    /\ faults_left = 1
    /\ clicks_left = 0

\* the run numbers launch_import_thread can hand out from InitLive
LiveRuns == 1..Cardinality(Decks)

\* one step of the thread of run r: the next statement of _import_worker,
\* a store request returning or raising included
RunStep(r) ==
    /\ r \in DOMAIN runs
    /\ \/ W_PutChecking(r)
       \/ \E o \in Outcomes : W_DeckNames(r, o)
       \/ \E o \in Outcomes : W_CreateDeck(r, o)
       \/ W_PutParsing(r)
       \/ W_PutCheckingDuplicates(r)
       \/ \E o \in Outcomes : W_FindNotes(r, o)
       \/ \E o \in Outcomes : W_NotesInfo(r, o)
       \/ \E o \in Outcomes : W_CardsInfo(r, o)
       \/ W_PutAdding(r)
       \/ \E o \in Outcomes : W_AddNotes(r, o)
       \/ W_PutFinalizing(r)
       \/ W_PutComplete(r)
       \/ W_PutDeckError(r)
       \/ W_PutCritical(r)

\* Every thread that was started keeps running (threading.Thread.start,
\* line 115, with requests that return or raise) and process_import_queue
\* polls again after every poll (root.after(100, ...) in its finally, 286).
SpecLive ==
    /\ InitLive
    /\ [][NextImport]_vars
    /\ WF_vars(Consume)
    /\ \A r \in LiveRuns : WF_vars(RunStep(r))

\* the event types of the messages of run r that are on the queue, in
\* queue order
Pending(r) ==
    LET own(m) == m.type # "destroy_widget" /\ m.run = r
        ms     == SelectSeq(import_queue, own)
    IN  [i \in DOMAIN ms |-> ms[i].type]

IsSuffix(s, t) ==
    /\ Len(s) <= Len(t)
    /\ s = [i \in 1..Len(s) |-> t[Len(t) - Len(s) + i]]

\* the queue changes by a put at its end or by the removal of its head; a
\* run leaves the runs in flight only when its Complete or Error event is
\* the head that is removed, and its start button is enabled in that step
QueueStep ==
    /\ import_queue' # import_queue =>
          \/ import_queue # <<>> /\ import_queue' = Tail(import_queue)
          \/ /\ Len(import_queue') = Len(import_queue) + 1
             /\ SubSeq(import_queue', 1, Len(import_queue)) = import_queue
    /\ \A r \in DOMAIN runs \ DOMAIN runs' :
          /\ import_queue # <<>> /\ import_queue' = Tail(import_queue)
          /\ Head(import_queue).type \in {"complete", "error"}
          /\ Head(import_queue).run = r
          /\ Pending(r) = <<Head(import_queue).type>>
          /\ start_button'[runs[r].deck] = "normal"

\* C35: under fair scheduling, the events of a run that wait on the queue
\* are the last events it emitted, in the order emitted, and the queue is
\* consumed from its head only; every run that was started leaves the runs
\* in flight, which it does when its Complete or Error event is consumed,
\* with its start button enabled in that step; every start button that is
\* disabled is enabled later.
C35_TerminalEventConsumed ==
    /\ [](\A r \in DOMAIN runs : IsSuffix(Pending(r), runs[r].emitted))
    /\ [][QueueStep]_vars
    /\ \A r \in LiveRuns : (r \in DOMAIN runs) ~> (r \notin DOMAIN runs)
    /\ \A d \in Decks : (start_button[d] = "disabled") ~> (start_button[d] = "normal")

\* C35 witness: both boxes were started, the terminal events of both runs
\* were consumed, one of them an Error, and both start buttons are enabled.
C35_Witness ==
    /\ nextRun = 2
    /\ runs = <<>>
    /\ import_queue = <<>>
    /\ \A d \in Decks : start_button[d] = "normal"
    /\ \E d \in Decks : progress_label[d] = <<"Error!">>
    /\ \E d \in Decks : progress_label[d] = <<"Done!">>

\* C36 (as claimed): while a run of a deck is in flight, from the step after
\* its launch to the step before its terminal event is consumed, no step
\* lowers the progress value of the deck's pane.
C36_ProgressNeverDecreases ==
    [][\A d \in Decks :
          (InFlight(d) # {} /\ InFlight(d)' # {}) =>
              progress_bar'[d] >= progress_bar[d]
      ]_vars

\* every line of the box of deck d is blank
NoInput(d) == \A i \in DOMAIN text[d] : \A j \in DOMAIN text[d][i] : IsSpace(text[d][i][j])

\* the messages on the queue that name deck d
QueuedFor(d) ==
    {i \in DOMAIN import_queue :
        import_queue[i].type # "destroy_widget" /\ import_queue[i].deck_name = d}

\* C37: whenever the box of a deck holds no non-blank line, however often
\* its Start Import was pressed: no run of the deck was started, no message
\* on the queue names the deck, no worker holds a request log for it, and
\* its start button is enabled.
C37_NoInputNoRun ==
    \A d \in Decks :
        NoInput(d) =>
            /\ InFlight(d) = {}
            /\ QueuedFor(d) = {}
            /\ start_button[d] = "normal"
            /\ progress_bar[d] = 0 /\ progress_label[d] = <<>>

\* C37 witness: Start Import of a box without input can be pressed (its
\* button is enabled, no window holds the grab, the run budget is not used
\* up) while the run of the other box has events waiting on the queue.
C37_Witness ==
    \E d, e \in Decks :
        /\ NoInput(d) /\ InputLines(text[d]) = <<>>
        /\ start_button[d] = "normal" /\ grab = 0 /\ runs_left > 0
        /\ InFlight(e) # {} /\ Cardinality(QueuedFor(e)) = 2

\* ------------------------------------------------------------------------
\* reset_cards called on its own
\* ------------------------------------------------------------------------

\* the lists of note ids of the calls: the id of ExistingNote and the next
MaxNoteIds == 2
NoteIdLists == Strings({1, 2}, MaxNoteIds)

\* the store's answer to findCards for "nid:1 or nid:2 ...": the cards of
\* the notes it has
CardsOfNotes(note_ids) ==
    LET has(n) == n \in DOMAIN anki_notes
        found  == SelectSeq(note_ids, has)
    IN  [i \in DOMAIN found |-> CardOf(found[i])]

\* the call, lines 128-129: None for no note ids, else the lookup is next;
\* a call starts when the one before is over
ResetCall(note_ids) ==
    /\ clicks_left > 0
    /\ clicks_left' = clicks_left - 1
    /\ \A t \in DOMAIN tasks : tasks[t].pc \in {"return", "putDestroy", "except"}
    /\ tasks' = (1 :> [item |-> 0, kind |-> "reset",
                       pc |-> IF note_ids = <<>> THEN "return" ELSE "findCards",
                       card_ids |-> <<>>, ok |-> TRUE, requests |-> <<>>,
                       note_ids |-> note_ids])
    /\ UNCHANGED <<text, start_button, progress_bar, progress_label, import_queue,
                   runs, nextRun, anki_decks, anki_notes, items, windows, grab,
                   reset_timers, widget_thread, runs_left, faults_left>>

\* (mutant: the result of the lookup is not tested)
R_FindCards_NoTest(t, o) ==
    /\ tasks[t].pc = "findCards"
    /\ Fault(o)
    /\ LET after == TaskAfter(tasks[t], "findCards", o, "unsuspend")
       IN  tasks' = [tasks EXCEPT ![t] =
              IF o = "ok"
              THEN [after EXCEPT !.card_ids = CardsOfNotes(tasks[t].note_ids)]
              ELSE after]
    /\ UNCHANGED <<import_queue, anki_decks, anki_notes, items, widget_thread>>
    /\ TaskCommon

\* lines 131-138: the lookup for all the note ids; None when it is not
\* answered or finds no card
R_FindCards(t, o) ==
    /\ tasks[t].pc = "findCards"
    /\ Fault(o)
    /\ LET response == anki_request(o, CardsOfNotes(tasks[t].note_ids))
           after == TaskAfter(tasks[t], "findCards", o, "unsuspend")
       IN  tasks' = [tasks EXCEPT ![t] =
              IF o = "raise" THEN after
              ELSE IF NoResult(response) THEN [after EXCEPT !.pc = "return"]
              ELSE [after EXCEPT !.card_ids = response.result]]
    /\ UNCHANGED <<import_queue, anki_decks, anki_notes, items, widget_thread>>
    /\ TaskCommon

InitReset ==
    /\ InitApp
    /\ anki_decks = Decks
    /\ anki_notes \in {<<>>, <<ExistingNote>>, <<ExistingNote, PassiveNote>>}
    /\ text = [d \in Decks |-> TextEmpty]
    /\ runs_left = 0
    /\ faults_left = MaxFaults
    /\ clicks_left = MaxClicks

\* lines 140 and 142 are the steps T_Unsuspend and T_ForgetCards; after the
\* forget request the call is over (pc "putDestroy" is the caller's next
\* statement), as it is at "return" and at "except"
NextReset ==
    \/ \E note_ids \in NoteIdLists : ResetCall(note_ids)
    \/ \E t \in DOMAIN tasks, o \in Outcomes : R_FindCards(t, o)
    \/ \E t \in DOMAIN tasks, o \in Outcomes : T_Unsuspend(t, o)
    \/ \E t \in DOMAIN tasks, o \in Outcomes : T_ForgetCards(t, o)

SpecReset == InitReset /\ [][NextReset]_vars

\* the names of the requests a call has issued
Names(task) == [i \in DOMAIN task.requests |-> task.requests[i][1]]

\* the call has returned None
ReturnedNone(task) ==
    \/ task.pc = "return"
    \/ task.pc = "putDestroy" /\ LastRequest(task) = <<"forgetCards", "urlerror">>

\* the lookup of the call was not answered, or found no card
LookupFailed(task) ==
    /\ task.requests # <<>>
    /\ \/ task.requests[1][2] \in {"urlerror", "error"}
       \/ task.requests[1][2] = "ok" /\ CardsOfNotes(task.note_ids) = <<>>

\* the first half of C38: no request at all for no note ids, only the lookup
\* when it failed, and None returned in both cases
NoRescheduleWithoutCards ==
    \A t \in DOMAIN tasks :
        /\ tasks[t].note_ids = <<>> =>
              tasks[t].requests = <<>> /\ ReturnedNone(tasks[t])
        /\ LookupFailed(tasks[t]) =>
              Names(tasks[t]) = <<"findCards">> /\ ReturnedNone(tasks[t])

\* a step of a call that issues unsuspend or forgetCards: unsuspend is for
\* the cards the lookup returned and, when `always` or when it returns,
\* forgetCards is next; forgetCards comes directly after unsuspend, for the
\* same cards
PairedStep(always) ==
    \A t \in DOMAIN tasks :
        (/\ t \in DOMAIN tasks'
         /\ Len(tasks'[t].requests) = Len(tasks[t].requests) + 1)
        => LET req == LastRequest(tasks'[t])
           IN  /\ req[1] = "unsuspend" =>
                     /\ tasks[t].card_ids = CardsOfNotes(tasks[t].note_ids)
                     /\ tasks[t].card_ids # <<>>
                     /\ tasks'[t].card_ids = tasks[t].card_ids
                     /\ (always \/ req[2] # "raise") => tasks'[t].pc = "forgetCards"
                     /\ req[2] = "raise" => tasks'[t].pc = "except"
               /\ req[1] = "forgetCards" =>
                     /\ LastRequest(tasks[t])[1] = "unsuspend"
                     /\ LastRequest(tasks[t])[2] # "raise"
                     /\ tasks'[t].card_ids = tasks[t].card_ids

\* C38 (as claimed): a call with no note ids, or whose lookup fails or finds
\* no card, issues neither unsuspend nor forgetCards and returns None; every
\* unsuspend request is followed by the forgetCards request for the same
\* cards.
C38_UnsuspendAlwaysFollowed ==
    /\ []NoRescheduleWithoutCards
    /\ [][PairedStep(TRUE)]_vars

\* C38 (amended): as claimed, except that the forgetCards request follows
\* every unsuspend request that returns, answered or not; an unsuspend
\* request that raises leaves reset_cards and no forgetCards request follows.
C38_UnsuspendFollowedUnlessRaised ==
    /\ []NoRescheduleWithoutCards
    /\ [][PairedStep(FALSE)]_vars
    /\ [](\A t \in DOMAIN tasks :
             (tasks[t].requests # <<>> /\ LastRequest(tasks[t]) = <<"unsuspend", "raise">>)
                 => tasks[t].pc = "except")

\* C38 witness: a call for the note of the store and a note the store lacks
\* found one card; its unsuspend request was not answered, its forget
\* request was, and the note is new.
C38_Witness ==
    \E t \in DOMAIN tasks :
        /\ tasks[t].note_ids = <<1, 2>>
        /\ DOMAIN anki_notes = {1}
        /\ tasks[t].requests = <<<<"findCards", "ok">>, <<"unsuspend", "urlerror">>,
                                 <<"forgetCards", "ok">>>>
        /\ tasks[t].card_ids = <<CardOf(1)>>
        /\ anki_notes[1].sched = "new"

\* ------------------------------------------------------------------------
\* add_note_single called on its own
\* ------------------------------------------------------------------------

\* A Python dict is an object on the heap: a function from its keys to
\* values, where the value of the key "options" is the address of another
\* dict. The heap of a call is a sequence of dicts; an address is an index.
EmptyDict == [k \in {} |-> 0]

\* the caller's note at address 1, and its options dict (if it has the key)
\* at address 2
NoteHeaps ==
    {<<EmptyDict>>}
    \cup {<<"fields" :> f>> : f \in {FrontA, FrontJ}}
    \cup {<<("fields" :> f) @@ ("options" :> 2), o>> :
            f \in {FrontA, FrontJ},
            o \in {EmptyDict, "allowDuplicate" :> FALSE, "allowDuplicate" :> TRUE}}

\* the dict at address a with the dict of its "options" key in place of the
\* address: what the caller reads and what json.dumps writes
Deep(heap, a) ==
    [k \in DOMAIN heap[a] |-> IF k = "options" THEN heap[heap[a][k]] ELSE heap[a][k]]

\* the given note with options.allowDuplicate set to true
WithAllowDuplicate(note) ==
    LET options == IF "options" \in DOMAIN note THEN note["options"] ELSE EmptyDict
    IN  ("options" :> (("allowDuplicate" :> TRUE) @@ options)) @@ note

AddSingleCommon ==
    UNCHANGED <<text, start_button, progress_bar, progress_label, import_queue,
                anki_decks, items, windows, grab, tasks, reset_timers,
                widget_thread, clicks_left>>

\* the call, lines 102-103: None for an empty note; a call starts when the
\* one before is over
CallAddSingle(heap) ==
    /\ runs_left > 0
    /\ runs_left' = runs_left - 1
    /\ nextRun' = nextRun + 1
    /\ \A r \in DOMAIN runs : runs[r].pc \in {"return", "returned", "except"}
    /\ runs' = ((nextRun + 1) :>
                  [heap |-> heap, note_to_add |-> 1, note_payload |-> 0,
                   options |-> 0, given |-> Deep(heap, 1),
                   pc |-> IF heap[1] = EmptyDict THEN "return" ELSE "copy",
                   requests |-> <<>>, sent |-> <<>>])
    /\ UNCHANGED <<anki_notes, faults_left>>
    /\ AddSingleCommon

\* line 106: note_payload = note_to_add.copy(), a new dict with the same
\* keys and the same values (the same options dict)
A_Copy(r) ==
    /\ runs[r].pc = "copy"
    /\ runs' = [runs EXCEPT ![r] =
                  [@ EXCEPT !.heap = Append(@, runs[r].heap[runs[r].note_to_add]),
                            !.note_payload = Len(runs[r].heap) + 1,
                            !.pc = "setdefault"]]
    /\ UNCHANGED <<nextRun, runs_left, anki_notes, faults_left>>
    /\ AddSingleCommon

\* line 107, note_payload.setdefault('options', {}): the dict the key has,
\* or a new empty dict that is stored under the key
A_SetDefault(r) ==
    /\ runs[r].pc = "setdefault"
    /\ LET p == runs[r].note_payload
           h == runs[r].heap
       IN  runs' = [runs EXCEPT ![r] =
              IF "options" \in DOMAIN h[p]
              THEN [@ EXCEPT !.options = h[p]["options"], !.pc = "assign"]
              ELSE [@ EXCEPT !.heap = Append([h EXCEPT ![p] = ("options" :> (Len(h) + 1)) @@ @],
                                             EmptyDict),
                             !.options = Len(h) + 1, !.pc = "assign"]]
    /\ UNCHANGED <<nextRun, runs_left, anki_notes, faults_left>>
    /\ AddSingleCommon

\* line 107, [...]['allowDuplicate'] = True, on the dict setdefault returned
A_Assign(r) ==
    /\ runs[r].pc = "assign"
    /\ runs' = [runs EXCEPT ![r] =
                  [@ EXCEPT !.heap[runs[r].options] = ("allowDuplicate" :> TRUE) @@ @,
                            !.pc = "addNote"]]
    /\ UNCHANGED <<nextRun, runs_left, anki_notes, faults_left>>
    /\ AddSingleCommon

\* line 109: the addNote request with the payload as json.dumps writes it;
\* the store adds a note that allows duplicates whatever it holds
A_AddNote(r, o) ==
    /\ runs[r].pc = "addNote"
    /\ Fault(o)
    /\ LET payload == Deep(runs[r].heap, runs[r].note_payload)
       IN  /\ runs' = [runs EXCEPT ![r] =
                  [@ EXCEPT !.requests = Append(@, <<"addNote", o>>),
                            !.sent = Append(@, payload),
                            !.pc = IF o = "raise" THEN "except" ELSE "returned"]]
           /\ anki_notes' =
                 IF o = "ok" /\ payload["options"]["allowDuplicate"]
                 THEN Append(anki_notes, [front |-> payload["fields"], back |-> <<>>,
                                          deck |-> "Default", sched |-> "new"])
                 ELSE anki_notes
    /\ UNCHANGED <<nextRun, runs_left>>
    /\ AddSingleCommon

InitAddSingle ==
    /\ InitApp
    /\ anki_decks = Decks
    /\ anki_notes \in {<<>>, <<ExistingNote>>}
    /\ text = [d \in Decks |-> TextEmpty]
    /\ runs_left = MaxRuns
    /\ faults_left = MaxFaults
    /\ clicks_left = 0

NextAddSingle ==
    \/ \E heap \in NoteHeaps : CallAddSingle(heap)
    \/ \E r \in DOMAIN runs : A_Copy(r)
    \/ \E r \in DOMAIN runs : A_SetDefault(r)
    \/ \E r \in DOMAIN runs : A_Assign(r)
    \/ \E r \in DOMAIN runs, o \in Outcomes : A_AddNote(r, o)

SpecAddSingle == InitAddSingle /\ [][NextAddSingle]_vars

\* C39 (as claimed, violated): at every statement of a call for a note that
\* is not empty, the caller's note reads as it did when the call was made;
\* a call that is over has sent one addNote request, whose note is the
\* given note with options.allowDuplicate set to true.
C39_CallerNoteUnchanged ==
    \A r \in DOMAIN runs :
        runs[r].given # EmptyDict =>
            /\ Deep(runs[r].heap, runs[r].note_to_add) = runs[r].given
            /\ runs[r].pc \in {"returned", "except"} =>
                  /\ Len(runs[r].requests) = 1
                  /\ runs[r].requests[1][1] = "addNote"
                  /\ runs[r].sent = <<WithAllowDuplicate(runs[r].given)>>

====
